---- MODULE Spec2Model ----
(***************************************************************************)
(* A model of the registration-and-dispatch substrate of mcp-chatgpt:      *)
(*   - the URL salt module (src/resources/typescript-resource-factory.ts), *)
(*   - ToolRegistry and the tool callback it installs,                     *)
(*   - ResourceRegistry and the read callback it installs,                 *)
(*   - the startup sequence of MCPChatGPTServer and the discovery of the   *)
(*     TypeScript resources,                                               *)
(*   - the /mcp route with its per-request transports.                     *)
(* Strings are TLA+ strings; template literals are concatenations (\o).     *)
(***************************************************************************)
EXTENDS Integers, Sequences, FiniteSets, TLC

VARIABLES
  \* --- salt module (typescript-resource-factory.ts)
  urlSalt,             \* the module variable urlSalt: Null or a string
  now,                 \* the wall clock read by Date.now()
  saltCall,            \* the last call of a salt operation and its outcome
  nSaltCalls,          \* number of salt operations called so far
  lastGet,             \* the value the latest getUrlSalt() returned, or Null
  lastUri,             \* per id, the URI the latest createSaltedUri(id) returned
  envTsSalt,           \* process.env.TS_SALT: Null when unset, else a string
  \* --- ToolRegistry
  registeredTools,     \* Map<string, ToolDefinition>
  mcpTools,            \* the mcpServer.registerTool calls made, in order
  toolCall,            \* the last register / registerMultiple call and its outcome
  nToolCalls,          \* number of registry calls so far
  inv,                 \* the tool callback invocation in progress or last finished
  \* --- ResourceRegistry
  registeredResources, \* Map<string, ResourceDefinition>
  mcpResources,        \* the mcpServer.registerResource calls made, in order
  resCall,             \* the last register / registerMultiple call and its outcome
  nResCalls,           \* number of registry calls so far
  rd,                  \* the resource read in progress or last finished
  \* --- MCPChatGPTServer startup
  startPc,             \* position of main(): constructor, start()
  resPc,               \* position of setupMCPResources()
  listening,           \* app.listen() has been called
  dirExists,           \* src/ts-resources exists
  dirFiles,            \* the candidate files in src/ts-resources
  unreadable,          \* the files of src/ts-resources that readFile cannot read
  bundles,             \* the base names whose dist/ts-resources/<name>.js can be read
  logged,              \* the warnings the discovery logged
  discovered,          \* the list discoverTypeScriptResources() resolved to
  observed,            \* what the latest GET /info answered
  \* --- the /mcp route and the shared McpServer
  sdkMode,             \* how the SDK's Protocol picks the transport of a response
  serverTransport,     \* the transport mcpServer is connected to (0: none)
  rq,                  \* per request: position of the route handler, captured transport
  conn,                \* per request: the responses written to its connection
  http,                \* per request: the HTTP response res (headers, status, body)
  closed,              \* per request: res emitted 'close'
  transportClosed,     \* per request: close() was called on its transport
  inFlightAtClose,     \* per request: the requests being handled when it closed
  \* --- one iteration of the discovery loop on one file
  scanFile,            \* the file: its base name, its tag lines, whether it can be read
  scanConfig           \* the TypeScriptResourceConfig built for it

saltVars  == <<urlSalt, now, saltCall, nSaltCalls, lastGet, lastUri, envTsSalt>>
toolVars  == <<registeredTools, mcpTools, toolCall, nToolCalls, inv>>
resVars   == <<registeredResources, mcpResources, resCall, nResCalls, rd>>
startVars == <<startPc, resPc, listening, dirExists, dirFiles, unreadable, bundles,
               logged, discovered, observed>>
sessVars  == <<sdkMode, serverTransport, rq, conn, http, closed, transportClosed,
               inFlightAtClose>>
scanVars  == <<scanFile, scanConfig>>
vars      == <<saltVars, toolVars, resVars, startVars, sessVars, scanVars>>

\* null / undefined: a value different from every string the program builds.
Null == "<null>"

(***************************************************************************)
(* Bounds of the model.                                                    *)
(***************************************************************************)
\* The clock runs from StartTime to StartTime + MaxTicks.
MaxTicks == 2
\* Number of salt operations called in one behaviour.
MaxSaltCalls == 4
\* Number of register / registerMultiple calls on one registry.
MaxRegCalls == 3
\* Length of the list handed to registerMultiple.
MaxBatch == 2

\* The first clock value: chosen so that the decimal string grows a digit.
StartTime == 9

(***************************************************************************)
(* The salt module.                                                        *)
(***************************************************************************)

DigitChar(d) ==
  CASE d = 0 -> "0" [] d = 1 -> "1" [] d = 2 -> "2" [] d = 3 -> "3" [] d = 4 -> "4"
    [] d = 5 -> "5" [] d = 6 -> "6" [] d = 7 -> "7" [] d = 8 -> "8" [] d = 9 -> "9"

\* Number.prototype.toString(): the decimal digits of n, most significant first.
RECURSIVE toString(_)
toString(n) ==
  IF n < 10 THEN DigitChar(n) ELSE toString(n \div 10) \o DigitChar(n % 10)

UriIds == {"carousel", "map"}

\* The values of the environment variable TS_SALT: unset, empty, or a release tag.
TsSaltValues == {Null, "", "v1"}

NoCall == [op |-> "none", id |-> Null, outcome |-> "none", value |-> Null]

SaltNotInitialized == "URL salt not initialized. Call initializeUrlSalt() first."

\* getUrlSalt() returns a default instead of throwing.
getUrlSalt_Default(salt) ==
  IF salt = Null \/ salt = ""
    THEN [outcome |-> "return", value |-> ""]
    ELSE [outcome |-> "return", value |-> salt]

\* getUrlSalt(): throws when urlSalt is falsy (null or the empty string).
getUrlSalt(salt) ==
  IF salt = Null \/ salt = ""
    THEN [outcome |-> "throw", value |-> SaltNotInitialized]
    ELSE [outcome |-> "return", value |-> salt]

\* createSaltedUri(uriId): `dbk-ts://${uriId}?salt=${getUrlSalt()}`.
createSaltedUri(salt, uriId) ==
  LET s == getUrlSalt(salt)
  IN  IF s.outcome = "throw"
        THEN s
        ELSE [outcome |-> "return",
              value   |-> "dbk-ts://" \o uriId \o "?salt=" \o s.value]

\* The clock advances.
Tick ==
  /\ now < StartTime + MaxTicks
  /\ now' = now + 1
  /\ UNCHANGED <<urlSalt, saltCall, nSaltCalls, lastGet, lastUri, envTsSalt>>
  /\ UNCHANGED <<toolVars, resVars, startVars, sessVars>>
  /\ UNCHANGED scanVars

\* The value initializeUrlSalt() assigns to urlSalt at time t: Date.now().toString().
SaltAt(t) == toString(t)

\* A call of initializeUrlSalt().
initializeUrlSalt ==
  /\ nSaltCalls < MaxSaltCalls
  /\ urlSalt' = SaltAt(now)
  /\ saltCall' = [op |-> "initializeUrlSalt", id |-> Null,
                  outcome |-> "return", value |-> Null]
  /\ nSaltCalls' = nSaltCalls + 1
  /\ UNCHANGED <<now, lastGet, lastUri, envTsSalt>>
  /\ UNCHANGED <<toolVars, resVars, startVars, sessVars>>
  /\ UNCHANGED scanVars

\* A call of getUrlSalt().
CallGetUrlSalt ==
  /\ nSaltCalls < MaxSaltCalls
  /\ LET r == getUrlSalt(urlSalt)
     IN  /\ saltCall' = [op |-> "getUrlSalt", id |-> Null,
                         outcome |-> r.outcome, value |-> r.value]
         /\ lastGet' = IF r.outcome = "return" THEN r.value ELSE lastGet
  /\ nSaltCalls' = nSaltCalls + 1
  /\ UNCHANGED <<urlSalt, now, lastUri, envTsSalt>>
  /\ UNCHANGED <<toolVars, resVars, startVars, sessVars>>
  /\ UNCHANGED scanVars

\* A call of createSaltedUri(id).
CallCreateSaltedUri ==
  /\ nSaltCalls < MaxSaltCalls
  /\ \E id \in UriIds :
       LET r == createSaltedUri(urlSalt, id)
       IN  /\ saltCall' = [op |-> "createSaltedUri", id |-> id,
                           outcome |-> r.outcome, value |-> r.value]
           /\ lastUri' = IF r.outcome = "return"
                           THEN [lastUri EXCEPT ![id] = r.value]
                           ELSE lastUri
  /\ nSaltCalls' = nSaltCalls + 1
  /\ UNCHANGED <<urlSalt, now, lastGet, envTsSalt>>
  /\ UNCHANGED <<toolVars, resVars, startVars, sessVars>>
  /\ UNCHANGED scanVars

(***************************************************************************)
(* ToolRegistry (tools/registry.ts).                                       *)
(***************************************************************************)

ToolNames == {"the-tool", "hotel-search"}
\* Distinguishes two definitions that carry the same name.
Impls == {1, 2}
\* A ToolDefinition: config.name, whether config.inputSchema is present, and
\* the implementation.
ToolDefs == [name : ToolNames, inputSchema : BOOLEAN, impl : Impls]

\* ToolRegistry.register drops the duplicate check.
ToolRegister_NoCheck(reg, mcp, tool) ==
  [threw |-> FALSE,
   reg   |-> [n \in DOMAIN reg \cup {tool.name} |->
                IF n = tool.name THEN tool ELSE reg[n]],
   mcp   |-> Append(mcp, tool)]

\* ToolRegistry.register(tool) on the registry state (registeredTools reg, the
\* registerTool calls mcp): throws on a name already present, before anything is
\* registered; otherwise installs the callback with mcpServer.registerTool and
\* records the definition.
ToolRegister(reg, mcp, tool) ==
  IF tool.name \in DOMAIN reg
    THEN [threw |-> TRUE, reg |-> reg, mcp |-> mcp]
    ELSE [threw |-> FALSE,
          reg   |-> [n \in DOMAIN reg \cup {tool.name} |->
                       IF n = tool.name THEN tool ELSE reg[n]],
          mcp   |-> Append(mcp, tool)]

\* registerMultiple skips a definition whose registration throws and goes on
\* with the rest of the list.
RECURSIVE ToolRegisterMultiple_Continue(_, _, _, _)
ToolRegisterMultiple_Continue(reg, mcp, tools, done) ==
  IF tools = <<>>
    THEN [threw |-> FALSE, reg |-> reg, mcp |-> mcp, done |-> done]
    ELSE LET r == ToolRegister(reg, mcp, Head(tools))
         IN  ToolRegisterMultiple_Continue(r.reg, r.mcp, Tail(tools),
                                           IF r.threw THEN done ELSE done + 1)

\* ToolRegistry.registerMultiple(tools): register each in order; the first throw
\* leaves the loop. done counts the definitions registered by this call.
RECURSIVE ToolRegisterMultiple(_, _, _, _)
ToolRegisterMultiple(reg, mcp, tools, done) ==
  IF tools = <<>>
    THEN [threw |-> FALSE, reg |-> reg, mcp |-> mcp, done |-> done]
    ELSE LET r == ToolRegister(reg, mcp, Head(tools))
         IN  IF r.threw
               THEN [threw |-> TRUE, reg |-> r.reg, mcp |-> r.mcp, done |-> done]
               ELSE ToolRegisterMultiple(r.reg, r.mcp, Tail(tools), done + 1)

\* The lists registerMultiple is called with.
ToolBatches == UNION {[1..k -> ToolDefs] : k \in 0..MaxBatch}

NoRegCall == [op |-> "none", names |-> <<>>, threw |-> FALSE, done |-> 0]

\* A call of toolRegistry.register(tool).
CallToolRegister ==
  /\ nToolCalls < MaxRegCalls
  /\ \E tool \in ToolDefs :
       LET r == ToolRegister(registeredTools, mcpTools, tool)
       IN  /\ registeredTools' = r.reg
           /\ mcpTools' = r.mcp
           /\ toolCall' = [op |-> "register", names |-> <<tool.name>>,
                           threw |-> r.threw, done |-> IF r.threw THEN 0 ELSE 1]
  /\ nToolCalls' = nToolCalls + 1
  /\ UNCHANGED inv
  /\ UNCHANGED <<saltVars, resVars, startVars, sessVars>>
  /\ UNCHANGED scanVars

\* A call of toolRegistry.registerMultiple(tools).
CallToolRegisterMultiple ==
  /\ nToolCalls < MaxRegCalls
  /\ \E tools \in ToolBatches :
       LET r == ToolRegisterMultiple(registeredTools, mcpTools, tools, 0)
       IN  /\ registeredTools' = r.reg
           /\ mcpTools' = r.mcp
           /\ toolCall' = [op |-> "registerMultiple",
                           names |-> [i \in 1..Len(tools) |-> tools[i].name],
                           threw |-> r.threw, done |-> r.done]
  /\ nToolCalls' = nToolCalls + 1
  /\ UNCHANGED inv
  /\ UNCHANGED <<saltVars, resVars, startVars, sessVars>>
  /\ UNCHANGED scanVars

(***************************************************************************)
(* The tool callback that ToolRegistry.register installs.                  *)
(***************************************************************************)

\* The raw arguments of a call. An object is a finite map from field names to
\* JSON values, of which only the type matters here; the other values are not
\* objects (typeof args !== 'object', or null).
ArgFields == {"message", "extra"}
JsonVals == {"str", "num"}
RawObjects == UNION {[S -> JsonVals] : S \in SUBSET ArgFields}
NonObjectKinds == {"undefined", "null", "string"}
RawArgs ==
  {[kind |-> "object", fields |-> f] : f \in RawObjects}
    \cup {[kind |-> k, fields |-> <<>>] : k \in NonObjectKinds}
NoArgs == [kind |-> "none", fields |-> <<>>]

\* typeof args === 'object' && args !== null
IsObject(args) == args.kind = "object"

\* The input schema of the model's tools: { message: z.string() }, as in the-tool.
SchemaFields == {"message"}

\* z.object(schema).parse(obj): fails when message is missing or is no string;
\* on success the value holds the schema's keys only (unknown keys are stripped).
zodParse(obj) ==
  LET missing == "message" \notin DOMAIN obj
      wrong   == ~missing /\ obj["message"] # "str"
  IN  [ok      |-> ~missing /\ ~wrong,
       message |-> IF missing THEN "message: Required"
                   ELSE IF wrong THEN "message: Expected string, received number"
                   ELSE "",
       value   |-> [kind   |-> "object",
                    fields |-> [f \in DOMAIN obj \cap SchemaFields |-> obj[f]]]]

\* A CallToolResult: content text, the isError flag ("absent" when the field is
\* not set) and structuredContent (Null when not set).
NoResult == [content |-> "", isError |-> "absent", structuredContent |-> Null]
\* What an implementation may return.
ImplResults ==
  {[content |-> "Found 3 hotels", isError |-> "absent", structuredContent |-> "data"],
   [content |-> "No hotels found", isError |-> "true", structuredContent |-> Null]}
\* What an implementation may throw: an Error with a message, or a value that
\* is no Error (throw 'raw').
NoThrown == [isErrorInstance |-> FALSE, text |-> ""]
Thrown ==
  {[isErrorInstance |-> TRUE,  text |-> "Check-in date cannot be in the past"],
   [isErrorInstance |-> FALSE, text |-> "raw"]}

\* error instanceof Error ? error.message : 'Unknown error'
errorMessage(e) == IF e.isErrorInstance THEN e.text ELSE "Unknown error"

\* The callback hands the raw arguments to the implementation.
ValidateArgs_PassRaw(tool, args) ==
  IF tool.inputSchema /\ IsObject(args)
    THEN LET p == zodParse(args.fields)
         IN  [rejected |-> ~p.ok, message |-> p.message, parsedArgs |-> args]
    ELSE [rejected |-> FALSE, message |-> "", parsedArgs |-> args]

\* The validation step of the callback: parsedArgs starts as args; only when the
\* tool has an inputSchema and args is a non-null object is it parsed.
ValidateArgs(tool, args) ==
  IF tool.inputSchema /\ IsObject(args)
    THEN LET p == zodParse(args.fields)
         IN  [rejected |-> ~p.ok, message |-> p.message,
              parsedArgs |-> IF p.ok THEN p.value ELSE args]
    ELSE [rejected |-> FALSE, message |-> "", parsedArgs |-> args]

\* The result returned on a parse error.
ValidationFailure(name, message) ==
  [content |-> "Input validation failed for " \o name \o ": " \o message,
   isError |-> "true", structuredContent |-> Null]

\* The callback answers a throwing implementation without the error flag.
ExecutionFailure_NoFlag(name, e) ==
  [content |-> "Error executing " \o name \o ": " \o errorMessage(e),
   isError |-> "absent", structuredContent |-> Null]

\* The result returned by the outer catch.
ExecutionFailure(name, e) ==
  [content |-> "Error executing " \o name \o ": " \o errorMessage(e),
   isError |-> "true", structuredContent |-> Null]

\* return await implementation(parsedArgs)
ReturnOfImplementation(res) == res

Idle ==
  [state |-> "idle", tool |-> [name |-> "", inputSchema |-> FALSE, impl |-> 0],
   raw |-> NoArgs, implCalls |-> 0, implArg |-> NoArgs, implOutcome |-> "none",
   implResult |-> NoResult, implThrown |-> NoThrown,
   outcome |-> "none", result |-> NoResult]

\* The SDK calls the callback installed for a tool: validation, and either the
\* validation failure is returned or the implementation is called and awaited.
ToolCallStart ==
  /\ inv.state # "running"
  /\ \E i \in 1..Len(mcpTools), args \in RawArgs :
       LET tool == mcpTools[i]
           v    == ValidateArgs(tool, args)
       IN  inv' = IF v.rejected
                    THEN [Idle EXCEPT !.state = "done", !.tool = tool, !.raw = args,
                                      !.outcome = "returned",
                                      !.result = ValidationFailure(tool.name, v.message)]
                    ELSE [Idle EXCEPT !.state = "running", !.tool = tool, !.raw = args,
                                      !.implCalls = 1, !.implArg = v.parsedArgs]
  /\ UNCHANGED <<registeredTools, mcpTools, toolCall, nToolCalls>>
  /\ UNCHANGED <<saltVars, resVars, startVars, sessVars>>
  /\ UNCHANGED scanVars

\* The awaited implementation returns: the callback returns its result.
ImplReturn ==
  /\ inv.state = "running"
  /\ \E res \in ImplResults :
       inv' = [inv EXCEPT !.state = "done", !.implOutcome = "returned",
                          !.implResult = res, !.outcome = "returned",
                          !.result = ReturnOfImplementation(res)]
  /\ UNCHANGED <<registeredTools, mcpTools, toolCall, nToolCalls>>
  /\ UNCHANGED <<saltVars, resVars, startVars, sessVars>>
  /\ UNCHANGED scanVars

\* The callback lets the implementation's throw through to the SDK.
ImplThrow_Rethrow ==
  /\ inv.state = "running"
  /\ \E e \in Thrown :
       inv' = [inv EXCEPT !.state = "done", !.implOutcome = "threw",
                          !.implThrown = e, !.outcome = "threw"]
  /\ UNCHANGED <<registeredTools, mcpTools, toolCall, nToolCalls>>
  /\ UNCHANGED <<saltVars, resVars, startVars, sessVars>>
  /\ UNCHANGED scanVars

\* The awaited implementation throws or rejects: the outer catch answers.
ImplThrow ==
  /\ inv.state = "running"
  /\ \E e \in Thrown :
       inv' = [inv EXCEPT !.state = "done", !.implOutcome = "threw",
                          !.implThrown = e, !.outcome = "returned",
                          !.result = ExecutionFailure(inv.tool.name, e)]
  /\ UNCHANGED <<registeredTools, mcpTools, toolCall, nToolCalls>>
  /\ UNCHANGED <<saltVars, resVars, startVars, sessVars>>
  /\ UNCHANGED scanVars

(***************************************************************************)
(* ResourceRegistry (resources/registry.ts) and the read callback.         *)
(***************************************************************************)

Uris == {"dbk-text://hello", "dbk-ts://x", "dbk-ts://x?salt=1"}
MimeTypes == {"text/plain", "text/html+skybridge"}
\* A ResourceDefinition: config.uri and config.mimeType (the producer is the
\* environment's: see ProducerOutputs).
ResourceDefs == [uri : Uris, mimeType : MimeTypes]

\* ResourceRegistry.register drops the duplicate check.
ResourceRegister_NoCheck(reg, mcp, resource) ==
  [threw |-> FALSE,
   reg   |-> [u \in DOMAIN reg \cup {resource.uri} |->
                IF u = resource.uri THEN resource ELSE reg[u]],
   mcp   |-> Append(mcp, resource)]

\* ResourceRegistry.register(resource): throws on a uri already present (the
\* strings are compared as they are), before anything is registered; otherwise
\* installs the read callback with mcpServer.registerResource and records the
\* definition.
ResourceRegister(reg, mcp, resource) ==
  IF resource.uri \in DOMAIN reg
    THEN [threw |-> TRUE, reg |-> reg, mcp |-> mcp]
    ELSE [threw |-> FALSE,
          reg   |-> [u \in DOMAIN reg \cup {resource.uri} |->
                       IF u = resource.uri THEN resource ELSE reg[u]],
          mcp   |-> Append(mcp, resource)]

\* ResourceRegistry.registerMultiple(resources).
RECURSIVE ResourceRegisterMultiple(_, _, _, _)
ResourceRegisterMultiple(reg, mcp, resources, done) ==
  IF resources = <<>>
    THEN [threw |-> FALSE, reg |-> reg, mcp |-> mcp, done |-> done]
    ELSE LET r == ResourceRegister(reg, mcp, Head(resources))
         IN  IF r.threw
               THEN [threw |-> TRUE, reg |-> r.reg, mcp |-> r.mcp, done |-> done]
               ELSE ResourceRegisterMultiple(r.reg, r.mcp, Tail(resources), done + 1)

ResourceBatches == UNION {[1..k -> ResourceDefs] : k \in 0..MaxBatch}

\* A call of resourceRegistry.register(resource).
CallResourceRegister ==
  /\ nResCalls < MaxRegCalls
  /\ \E resource \in ResourceDefs :
       LET r == ResourceRegister(registeredResources, mcpResources, resource)
       IN  /\ registeredResources' = r.reg
           /\ mcpResources' = r.mcp
           /\ resCall' = [op |-> "register", names |-> <<resource.uri>>,
                          threw |-> r.threw, done |-> IF r.threw THEN 0 ELSE 1]
  /\ nResCalls' = nResCalls + 1
  /\ UNCHANGED rd
  /\ UNCHANGED <<saltVars, toolVars, startVars, sessVars>>
  /\ UNCHANGED scanVars

\* A call of resourceRegistry.registerMultiple(resources).
CallResourceRegisterMultiple ==
  /\ nResCalls < MaxRegCalls
  /\ \E resources \in ResourceBatches :
       LET r == ResourceRegisterMultiple(registeredResources, mcpResources, resources, 0)
       IN  /\ registeredResources' = r.reg
           /\ mcpResources' = r.mcp
           /\ resCall' = [op |-> "registerMultiple",
                          names |-> [i \in 1..Len(resources) |-> resources[i].uri],
                          threw |-> r.threw, done |-> r.done]
  /\ nResCalls' = nResCalls + 1
  /\ UNCHANGED rd
  /\ UNCHANGED <<saltVars, toolVars, startVars, sessVars>>
  /\ UNCHANGED scanVars

\* What a producer (ResourceImplementation) may resolve to: text and blob are
\* each a string or undefined (Null).
ProducerOutputs == [text : {Null, "", "hello"}, blob : {Null, "AAEC"}]
NoOutput == [text |-> Null, blob |-> Null]

\* The content object carries text and blob whenever the producer set them.
ContentObject_Both(resource, content) ==
  LET base == [k \in {"uri", "mimeType"} |->
                 IF k = "uri" THEN resource.uri ELSE resource.mimeType]
      t    == IF content.text # Null THEN "text" :> content.text ELSE <<>>
      b    == IF content.blob # Null THEN "blob" :> content.blob ELSE <<>>
  IN  IF content.text = Null /\ content.blob = Null
        THEN base @@ ("text" :> "")
        ELSE base @@ t @@ b

\* The content object prefers the blob to the text.
ContentObject_BlobFirst(resource, content) ==
  LET base == [k \in {"uri", "mimeType"} |->
                 IF k = "uri" THEN resource.uri ELSE resource.mimeType]
  IN  IF content.blob # Null
        THEN base @@ ("blob" :> content.blob)
        ELSE IF content.text # Null
          THEN base @@ ("text" :> content.text)
          ELSE base @@ ("text" :> "")

\* The content object of the read callback: uri and mimeType of the definition,
\* then text if the producer set it, else blob if it set that, else text ''.
ContentObject(resource, content) ==
  LET base == [k \in {"uri", "mimeType"} |->
                 IF k = "uri" THEN resource.uri ELSE resource.mimeType]
  IN  IF content.text # Null
        THEN base @@ ("text" :> content.text)
        ELSE IF content.blob # Null
          THEN base @@ ("blob" :> content.blob)
          ELSE base @@ ("text" :> "")

\* The Error of the read callback does not name the resource.
ReadError_NoUri(uri, e) == "Error reading resource: " \o errorMessage(e)

\* The message of the Error the read callback throws when the producer threw.
ReadError(uri, e) == "Error reading resource " \o uri \o ": " \o errorMessage(e)

NoRead ==
  [state |-> "idle", resource |-> [uri |-> "", mimeType |-> ""],
   produced |-> NoOutput, outcome |-> "none", contents |-> <<>>, error |-> ""]

\* The SDK calls the read callback installed for a resource: the producer is
\* called and awaited.
ReadStart ==
  /\ rd.state # "running"
  /\ \E i \in 1..Len(mcpResources) :
       rd' = [NoRead EXCEPT !.state = "running", !.resource = mcpResources[i]]
  /\ UNCHANGED <<registeredResources, mcpResources, resCall, nResCalls>>
  /\ UNCHANGED <<saltVars, toolVars, startVars, sessVars>>
  /\ UNCHANGED scanVars

\* The producer resolves: the callback returns { contents: [contentObj] }.
ProducerReturn ==
  /\ rd.state = "running"
  /\ \E content \in ProducerOutputs :
       rd' = [rd EXCEPT !.state = "done", !.produced = content,
                        !.outcome = "returned",
                        !.contents = <<ContentObject(rd.resource, content)>>]
  /\ UNCHANGED <<registeredResources, mcpResources, resCall, nResCalls>>
  /\ UNCHANGED <<saltVars, toolVars, startVars, sessVars>>
  /\ UNCHANGED scanVars

\* The producer throws or rejects: the callback throws a new Error.
ProducerThrow ==
  /\ rd.state = "running"
  /\ \E e \in Thrown :
       rd' = [rd EXCEPT !.state = "done", !.outcome = "rejected",
                        !.error = ReadError(rd.resource.uri, e)]
  /\ UNCHANGED <<registeredResources, mcpResources, resCall, nResCalls>>
  /\ UNCHANGED <<saltVars, toolVars, startVars, sessVars>>
  /\ UNCHANGED scanVars

(***************************************************************************)
(* MCPChatGPTServer: main(), the constructor and start() (index.ts), with  *)
(* getAvailableResources (resources/index.ts) and the discovery            *)
(* (resources/typescript-auto-discovery.ts).                               *)
(***************************************************************************)

\* tools/index.ts: availableTools.
theTool == [name |-> "the-tool", inputSchema |-> TRUE, impl |-> 1, metaTemplate |-> Null]
\* hotel-search has a _meta whose 'openai/outputTemplate' is a getter that
\* returns createSaltedUri('carousel'): metaTemplate is the uriId it passes.
hotelSearchTool ==
  [name |-> "hotel-search", inputSchema |-> TRUE, impl |-> 2, metaTemplate |-> "carousel"]

\* register copies the fields of config._meta, which calls the getter.
MetaReads_Copied(tool) ==
  IF tool.metaTemplate # Null THEN <<tool.metaTemplate>> ELSE <<>>

\* The uriIds createSaltedUri is called with while ToolRegistry.register
\* handles config._meta: `toolConfig['_meta'] = config._meta` stores the object
\* itself, so no getter of it is called.
MetaReads(tool) == <<>>

\* The createSaltedUri calls made while the tools of a list are registered.
RECURSIVE RegistrationSaltCalls(_, _)
RegistrationSaltCalls(salt, tools) ==
  IF tools = <<>> THEN <<>>
  ELSE LET ids == MetaReads(Head(tools))
       IN  [i \in 1..Len(ids) |->
              LET r == createSaltedUri(salt, ids[i])
              IN  [op |-> "createSaltedUri", id |-> ids[i],
                   outcome |-> r.outcome, value |-> r.value]]
             \o RegistrationSaltCalls(salt, Tail(tools))

\* A call of the list threw.
AnyThrew(calls) == \E i \in 1..Len(calls) : calls[i].outcome = "throw"

\* The salt variables after a list of createSaltedUri calls, in order.
SaltCallAfter(calls) == IF calls = <<>> THEN saltCall ELSE calls[Len(calls)]
LastUriAfter(calls) ==
  [id \in UriIds |->
     LET hits == {i \in 1..Len(calls) : calls[i].id = id /\ calls[i].outcome = "return"}
     IN  IF hits = {} THEN lastUri[id]
         ELSE calls[CHOOSE i \in hits : \A j \in hits : j <= i].value]
availableTools == <<theTool, hotelSearchTool>>

\* resources/instances/hello-world.ts.
helloWorldResource == [uri |-> "dbk-text://hello", mimeType |-> "text/plain"]

\* extractFileMetadata looks at the first 20 lines of a file.
MetadataLines == 20

\* The tag lines of a file, in the order of the file. Of a line only its
\* number (at), the tag it carries, and how the value is written matter:
\* "quoted" is @mcp-x: "value" or 'value', "unquoted" is @mcp-x: value. The
\* value may be empty (@mcp-x: "").
TagKinds == {"uriId", "name", "description"}
TagForms == {"quoted", "unquoted"}
TagValues == {"", "map-view", "Hotels"}
TagPositions == {1, MetadataLines, MetadataLines + 1}
TagLines == [at : TagPositions, kind : TagKinds, form : TagForms, value : TagValues]

\* The candidate files src/ts-resources may hold, in the order readdir lists
\* them, each with its base name (basename(file, extname(file))) and its tag
\* lines.
CandidateFiles ==
  <<[file |-> "carousel.tsx", filename |-> "carousel", lines |-> <<>>],
    [file |-> "map.ts",       filename |-> "map",      lines |-> <<>>],
    [file |-> "map.tsx",      filename |-> "map",
     lines |-> <<[at |-> 2, kind |-> "uriId", form |-> "quoted", value |-> "map-view"]>>]>>

\* The files of dir in readdir order.
RECURSIVE FilesIn(_, _)
FilesIn(dir, k) ==
  IF k > Len(CandidateFiles) THEN <<>>
  ELSE (IF CandidateFiles[k].file \in dir THEN <<CandidateFiles[k]>> ELSE <<>>)
         \o FilesIn(dir, k + 1)

\* The metadata without any tag: {}.
NoMetadata == [uriId |-> Null, name |-> Null, description |-> Null]

\* The scan looks at every line of the file.
HeaderLines_All(lines) == lines

\* content.split('\n').slice(0, 20)
HeaderLines(lines) == SelectSeq(lines, LAMBDA l : l.at <= MetadataLines)

\* line.match(/@mcp-x:\s*["']([^"']+)["']/) && match[1]: the value is quoted and
\* has at least one character.
TagMatches(l) == l.form = "quoted" /\ l.value # ""

\* The loop over the lines: each matching line sets the field of its tag.
RECURSIVE ParseLines(_, _)
ParseLines(lines, metadata) ==
  IF lines = <<>> THEN metadata
  ELSE LET l == Head(lines)
       IN  ParseLines(Tail(lines),
                      IF TagMatches(l) THEN [metadata EXCEPT ![l.kind] = l.value]
                      ELSE metadata)

\* extractFileMetadata(filePath): the tags of the first lines of the file; the
\* empty metadata when the file cannot be read.
extractFileMetadata(f, unread) ==
  IF f.file \in unread THEN NoMetadata
  ELSE ParseLines(HeaderLines(f.lines), NoMetadata)

\* The base names of the files whose scan is examined one at a time.
ScanFilenames == {"carousel", "map", "react-sample"}

\* generateDisplayName(filename): '-' and '_' become spaces, each word is
\* capitalized, and the words Ts, Js, React, Api, Ui, Ux are upper-cased.
generateDisplayName(filename) ==
  CASE filename = "carousel" -> "Carousel"
    [] filename = "map" -> "Map"
    [] filename = "react-sample" -> "REACT Sample"

\* generateDescription(filename): the entry of DEFAULT_DESCRIPTIONS for the
\* name, or for the first pattern the name includes, or the general text.
generateDescription(filename) ==
  IF filename = "react-sample"
    THEN "React TypeScript component with JSX, hooks, event handling, and modern React patterns"
    ELSE "TypeScript demonstration file showcasing various language features and patterns"

\* The TypeScriptResourceConfig the discovery loop builds for a file.
ResourceConfig(filename, metadata) ==
  [filename    |-> filename,
   uriId       |-> IF metadata.uriId # Null THEN metadata.uriId ELSE filename,
   name        |-> IF metadata.name # Null THEN metadata.name
                   ELSE generateDisplayName(filename),
   description |-> IF metadata.description # Null THEN metadata.description
                   ELSE generateDescription(filename)]

\* createTypeScriptResource(config): the definition's uri is
\* createSaltedUri(config.uriId), which throws while the salt is not set; its
\* implementation reads the bundle of config.filename.
createTypeScriptResource(salt, filename, uriId) ==
  LET u == createSaltedUri(salt, uriId)
  IN  IF u.outcome = "throw"
        THEN [threw |-> TRUE,
              resource |-> [uri |-> "", mimeType |-> "", filename |-> filename]]
        ELSE [threw |-> FALSE,
              resource |-> [uri |-> u.value, mimeType |-> "text/html+skybridge",
                            filename |-> filename]]

\* The loop of discoverTypeScriptResources over the files: uriId is the
\* @mcp-uri value or else the base name; a file whose resource cannot be
\* created is logged and left out.
RECURSIVE DiscoverFiles(_, _, _)
DiscoverFiles(salt, files, unread) ==
  IF files = <<>> THEN <<>>
  ELSE LET f == Head(files)
           metadata == extractFileMetadata(f, unread)
           uriId == IF metadata.uriId # Null THEN metadata.uriId ELSE f.filename
           r == createTypeScriptResource(salt, f.filename, uriId)
       IN  (IF r.threw THEN <<>> ELSE <<r.resource>>)
             \o DiscoverFiles(salt, Tail(files), unread)

\* discoverTypeScriptResources(): the empty list when the directory is missing.
discoverTypeScriptResources(salt, exists, dir, unread) ==
  IF ~exists THEN <<>> ELSE DiscoverFiles(salt, FilesIn(dir, 1), unread)

\* The warnings of the loop: one for each file whose resource was not created.
RECURSIVE FileWarnings(_, _, _)
FileWarnings(salt, files, unread) ==
  IF files = <<>> THEN <<>>
  ELSE LET f == Head(files)
           metadata == extractFileMetadata(f, unread)
           uriId == IF metadata.uriId # Null THEN metadata.uriId ELSE f.filename
           r == createTypeScriptResource(salt, f.filename, uriId)
       IN  (IF r.threw THEN <<"Failed to create resource for " \o f.file>> ELSE <<>>)
             \o FileWarnings(salt, Tail(files), unread)

\* The createSaltedUri calls of the loop: one for each file, in order.
RECURSIVE FileSaltCalls(_, _, _)
FileSaltCalls(salt, files, unread) ==
  IF files = <<>> THEN <<>>
  ELSE LET f == Head(files)
           metadata == extractFileMetadata(f, unread)
           uriId == IF metadata.uriId # Null THEN metadata.uriId ELSE f.filename
           r == createSaltedUri(salt, uriId)
       IN  <<[op |-> "createSaltedUri", id |-> uriId,
              outcome |-> r.outcome, value |-> r.value]>>
             \o FileSaltCalls(salt, Tail(files), unread)

\* The createSaltedUri calls discoverTypeScriptResources() makes.
discoverySaltCalls(salt, exists, dir, unread) ==
  IF ~exists THEN <<>> ELSE FileSaltCalls(salt, FilesIn(dir, 1), unread)

\* The discovery logs nothing.
discoveryWarnings_Silent(salt, exists, dir, unread) == <<>>

\* The warnings discoverTypeScriptResources() logs (logger.warn).
discoveryWarnings(salt, exists, dir, unread) ==
  IF ~exists
    THEN <<"TypeScript resources directory not found:">>
    ELSE FileWarnings(salt, FilesIn(dir, 1), unread)

\* getAvailableResources() puts the discovered resources before the static ones.
getAvailableResources_DiscoveredFirst(salt, exists, dir, unread) ==
  discoverTypeScriptResources(salt, exists, dir, unread) \o <<helloWorldResource>>

\* getAvailableResources(): [...staticResources, ...typescriptResources].
getAvailableResources(salt, exists, dir, unread) ==
  <<helloWorldResource>> \o discoverTypeScriptResources(salt, exists, dir, unread)

\* The diagnostic text of a TypeScript resource whose bundle cannot be read.
BundleErrorText(filename) ==
  "// Error: Failed to read compiled JavaScript for " \o filename
    \o "\n// ENOENT: no such file or directory"
    \o "\n// Hint: Make sure to run \"pnpm run build\" to compile TypeScript files"
    \o "\n// Expected file: dist/ts-resources/" \o filename \o ".js"

\* The HTML of a TypeScript resource around the content of its bundle.
BundleHtml(filename) ==
  "<script type=\"module\">" \o "content of dist/ts-resources/" \o filename \o ".js"
    \o "</script>"

\* The implementation of a TypeScript resource lets the read error through.
TypeScriptImplementation_Rethrow(filename, readable) ==
  IF filename \in readable
    THEN [outcome |-> "return", text |-> BundleHtml(filename)]
    ELSE [outcome |-> "throw", text |-> "ENOENT: no such file or directory"]

\* The implementation createTypeScriptResource builds: the HTML with the
\* bundle, or the diagnostic text when readFile throws; it never throws.
TypeScriptImplementation(filename, readable) ==
  IF filename \in readable
    THEN [outcome |-> "return", text |-> BundleHtml(filename)]
    ELSE [outcome |-> "return", text |-> BundleErrorText(filename)]

\* The implementation of helloWorldResource.
HelloWorldImplementation == [outcome |-> "return", text |-> "Hello, World from my MCP!!!"]

\* The implementation of a registered definition, run.
RunImplementation(resource, readable) ==
  IF "filename" \in DOMAIN resource
    THEN TypeScriptImplementation(resource.filename, readable)
    ELSE HelloWorldImplementation

\* resourceRegistry.registerMultipleAsync(promise): awaits the list, then
\* registers each definition in order; the first failure rejects.
registerMultipleAsync(reg, mcp, resources) ==
  ResourceRegisterMultiple(reg, mcp, resources, 0)

\* The most tag lines a scanned file has.
MaxTagLines == 2

\* The files a scan is examined on: a base name, up to MaxTagLines tag lines
\* on increasing line numbers, and whether readFile can read the file.
ScanInputs ==
  {[file |-> n \o ".tsx", filename |-> n, lines |-> ls, readable |-> b] :
     n \in ScanFilenames, b \in BOOLEAN,
     ls \in {q \in UNION {[1..k -> TagLines] : k \in 0..MaxTagLines} :
               \A i \in 1..(Len(q) - 1) : q[i].at < q[i + 1].at}}

NoFile == [file |-> "", filename |-> "", lines |-> <<>>, readable |-> TRUE]
NoConfig == [filename |-> "", uriId |-> "", name |-> "", description |-> ""]

ScanIdle == scanFile = NoFile /\ scanConfig = NoConfig

\* One iteration of the loop of discoverTypeScriptResources up to the config:
\* the metadata of the file is extracted and the config is built.
ScanFile ==
  /\ scanConfig = NoConfig
  /\ scanConfig' =
       ResourceConfig(scanFile.filename,
                      extractFileMetadata(scanFile,
                                          IF scanFile.readable THEN {}
                                          ELSE {scanFile.file}))
  /\ UNCHANGED scanFile
  /\ UNCHANGED <<saltVars, toolVars, resVars, startVars, sessVars>>

NoObservation == [seen |-> FALSE, tools |-> {}, resources |-> {}]

\* new MCPChatGPTServer(): setupExpress() defines the routes, setupMCPTools()
\* registers availableTools. A throw leaves main() through its catch:
\* process.exit(1).
Construct ==
  /\ startPc = "new"
  /\ LET calls == RegistrationSaltCalls(urlSalt, availableTools)
         r == ToolRegisterMultiple(registeredTools, mcpTools, availableTools, 0)
     IN  /\ saltCall' = SaltCallAfter(calls)
         /\ nSaltCalls' = nSaltCalls + Len(calls)
         /\ lastUri' = LastUriAfter(calls)
         /\ IF AnyThrew(calls)
              THEN /\ startPc' = "exited"
                   /\ UNCHANGED <<registeredTools, mcpTools, toolCall, nToolCalls>>
              ELSE /\ registeredTools' = r.reg
                   /\ mcpTools' = r.mcp
                   /\ toolCall' = [op |-> "registerMultiple",
                                   names |-> [i \in 1..Len(availableTools) |->
                                                availableTools[i].name],
                                   threw |-> r.threw, done |-> r.done]
                   /\ startPc' = IF r.threw THEN "exited" ELSE "constructed"
                   /\ nToolCalls' = nToolCalls + 1
  /\ UNCHANGED <<inv, resVars>>
  /\ UNCHANGED <<urlSalt, now, lastGet, envTsSalt>>
  /\ UNCHANGED <<resPc, listening, dirExists, dirFiles, unreadable, bundles, logged, discovered, observed>>
  /\ UNCHANGED sessVars
  /\ UNCHANGED scanVars

\* start(): initializeUrlSalt().
StartInitializeUrlSalt ==
  /\ startPc = "constructed"
  /\ urlSalt' = SaltAt(now)
  /\ saltCall' = [op |-> "initializeUrlSalt", id |-> Null,
                  outcome |-> "return", value |-> Null]
  /\ nSaltCalls' = nSaltCalls + 1
  /\ startPc' = "salted"
  /\ UNCHANGED <<now, lastGet, lastUri, envTsSalt, toolVars, resVars>>
  /\ UNCHANGED <<resPc, listening, dirExists, dirFiles, unreadable, bundles, logged, discovered, observed>>
  /\ UNCHANGED sessVars
  /\ UNCHANGED scanVars

\* start(): setupMCPResources() is called and awaited; it calls
\* getAvailableResources(), whose discovery awaits the file system.
StartSetupResources ==
  /\ startPc = "salted"
  /\ startPc' = "awaiting"
  /\ resPc' = "discovering"
  /\ UNCHANGED <<saltVars, toolVars, resVars>>
  /\ UNCHANGED <<listening, dirExists, dirFiles, unreadable, bundles, logged, discovered, observed>>
  /\ UNCHANGED sessVars
  /\ UNCHANGED scanVars

\* getAvailableResources() resolves to the list of definitions.
DiscoveryResolves ==
  /\ resPc = "discovering"
  /\ discovered' = getAvailableResources(urlSalt, dirExists, dirFiles, unreadable)
  /\ logged' = discoveryWarnings(urlSalt, dirExists, dirFiles, unreadable)
  /\ LET calls == discoverySaltCalls(urlSalt, dirExists, dirFiles, unreadable)
     IN  /\ saltCall' = SaltCallAfter(calls)
         /\ nSaltCalls' = nSaltCalls + Len(calls)
         /\ lastUri' = LastUriAfter(calls)
  /\ resPc' = "registering"
  /\ UNCHANGED <<urlSalt, now, lastGet, envTsSalt>>
  /\ UNCHANGED <<toolVars, resVars>>
  /\ UNCHANGED <<startPc, listening, dirExists, dirFiles, unreadable, bundles, observed>>
  /\ UNCHANGED sessVars
  /\ UNCHANGED scanVars

\* registerMultipleAsync registers the resolved list; setupMCPResources()
\* resolves, or rejects on a duplicate uri.
RegisterResources ==
  /\ resPc = "registering"
  /\ LET r == registerMultipleAsync(registeredResources, mcpResources, discovered)
     IN  /\ registeredResources' = r.reg
         /\ mcpResources' = r.mcp
         /\ resCall' = [op |-> "registerMultiple",
                        names |-> [i \in 1..Len(discovered) |-> discovered[i].uri],
                        threw |-> r.threw, done |-> r.done]
         /\ resPc' = IF r.threw THEN "failed" ELSE "done"
  /\ nResCalls' = nResCalls + 1
  /\ UNCHANGED <<rd, saltVars, toolVars>>
  /\ UNCHANGED <<startPc, listening, dirExists, dirFiles, unreadable, bundles, logged, discovered, observed>>
  /\ UNCHANGED sessVars
  /\ UNCHANGED scanVars

\* start() goes on to app.listen() without awaiting setupMCPResources().
ResourcesAwaited_NoAwait == resPc \in {"discovering", "registering", "done"}

\* await this.setupMCPResources() has returned.
ResourcesAwaited == resPc = "done"

\* start(): app.listen(port): the HTTP server accepts requests from here on.
Listen ==
  /\ startPc = "awaiting"
  /\ ResourcesAwaited
  /\ startPc' = "listening"
  /\ listening' = TRUE
  /\ UNCHANGED <<saltVars, toolVars, resVars>>
  /\ UNCHANGED <<resPc, dirExists, dirFiles, unreadable, bundles, logged, discovered, observed>>
  /\ UNCHANGED sessVars
  /\ UNCHANGED scanVars

\* await this.setupMCPResources() rejects: start() rejects and main()'s catch
\* ends the process.
StartFails ==
  /\ startPc = "awaiting"
  /\ resPc = "failed"
  /\ startPc' = "exited"
  /\ UNCHANGED <<saltVars, toolVars, resVars>>
  /\ UNCHANGED <<resPc, listening, dirExists, dirFiles, unreadable, bundles, logged, discovered, observed>>
  /\ UNCHANGED sessVars
  /\ UNCHANGED scanVars

\* A request GET /info is served: it answers the names in both registries.
GetInfo ==
  /\ listening
  /\ startPc # "exited"
  /\ observed' = [seen |-> TRUE, tools |-> DOMAIN registeredTools,
                  resources |-> DOMAIN registeredResources]
  /\ UNCHANGED <<saltVars, toolVars, resVars>>
  /\ UNCHANGED <<startPc, resPc, listening, dirExists, dirFiles, unreadable, bundles, logged, discovered>>
  /\ UNCHANGED sessVars
  /\ UNCHANGED scanVars

\* A call of getAvailableResources() (exported by resources/index.ts), which
\* awaits discoverTypeScriptResources(), in whatever state the salt is.
CallGetAvailableResources ==
  /\ LET calls == discoverySaltCalls(urlSalt, dirExists, dirFiles, unreadable)
     IN  /\ nSaltCalls + Len(calls) <= MaxSaltCalls
         /\ saltCall' = SaltCallAfter(calls)
         /\ nSaltCalls' = nSaltCalls + Len(calls)
         /\ lastUri' = LastUriAfter(calls)
  /\ discovered' = getAvailableResources(urlSalt, dirExists, dirFiles, unreadable)
  /\ logged' = discoveryWarnings(urlSalt, dirExists, dirFiles, unreadable)
  /\ resPc' = "called"
  /\ UNCHANGED <<urlSalt, now, lastGet, envTsSalt>>
  /\ UNCHANGED <<startPc, listening, dirExists, dirFiles, unreadable, bundles, observed>>
  /\ UNCHANGED <<toolVars, resVars, sessVars>>
  /\ UNCHANGED scanVars

\* The listening server serves a read of a registered resource: the read
\* callback calls the implementation of the definition and awaits it.
ReadRegistered ==
  /\ listening
  /\ rd.state # "running"
  /\ \E i \in 1..Len(mcpResources) :
       rd' = [NoRead EXCEPT !.state = "running", !.resource = mcpResources[i]]
  /\ UNCHANGED <<registeredResources, mcpResources, resCall, nResCalls>>
  /\ UNCHANGED <<saltVars, toolVars, startVars, sessVars>>
  /\ UNCHANGED scanVars

\* The implementation settles and the read callback returns the contents, or
\* throws when the implementation threw.
ImplementationSettles ==
  /\ listening
  /\ rd.state = "running"
  /\ LET r == RunImplementation(rd.resource, bundles)
     IN  rd' = IF r.outcome = "return"
                 THEN [rd EXCEPT !.state = "done", !.outcome = "returned",
                                 !.produced = [text |-> r.text, blob |-> Null],
                                 !.contents = <<ContentObject(rd.resource,
                                                   [text |-> r.text, blob |-> Null])>>]
                 ELSE [rd EXCEPT !.state = "done", !.outcome = "rejected",
                                 !.error = ReadError(rd.resource.uri,
                                             [isErrorInstance |-> TRUE, text |-> r.text])]
  /\ UNCHANGED <<registeredResources, mcpResources, resCall, nResCalls>>
  /\ UNCHANGED <<saltVars, toolVars, startVars, sessVars>>
  /\ UNCHANGED scanVars

\* A client lists the tools: serializing the _meta of hotel-search reads its
\* 'openai/outputTemplate', whose getter calls createSaltedUri('carousel').
ListTools ==
  /\ listening
  /\ nSaltCalls < MaxSaltCalls
  /\ LET id == hotelSearchTool.metaTemplate
         r  == createSaltedUri(urlSalt, id)
     IN  /\ saltCall' = [op |-> "createSaltedUri", id |-> id,
                         outcome |-> r.outcome, value |-> r.value]
         /\ lastUri' = IF r.outcome = "return"
                         THEN [lastUri EXCEPT ![id] = r.value]
                         ELSE lastUri
  /\ nSaltCalls' = nSaltCalls + 1
  /\ UNCHANGED <<urlSalt, now, lastGet, envTsSalt>>
  /\ UNCHANGED <<toolVars, resVars, startVars, sessVars>>
  /\ UNCHANGED scanVars

\* The clock advances while the server runs.
ClockTick ==
  /\ now < StartTime + MaxTicks
  /\ now' = now + 1
  /\ UNCHANGED <<urlSalt, saltCall, nSaltCalls, lastGet, lastUri, envTsSalt>>
  /\ UNCHANGED <<toolVars, resVars, startVars, sessVars>>
  /\ UNCHANGED scanVars

(***************************************************************************)
(* The /mcp route (index.ts, setupExpress) and the one McpServer all       *)
(* requests share. Every request carries JSON-RPC id 1 and calls a tool.   *)
(* mcpServer.connect(transport) attaches the server to that transport in   *)
(* place of the one it was attached to. The response to a request is sent  *)
(* by the SDK's Protocol through the transport it captured when the        *)
(* request was dispatched (sdkMode "captured") or through the transport    *)
(* the server is attached to when the handler ends (sdkMode "current"),    *)
(* depending on the version of the SDK the build resolves.                 *)
(***************************************************************************)

Requests == {1, 2}
NoTransport == 0
SdkModes == {"captured", "current"}

NoRequest == [pc |-> "none", via |-> NoTransport]

\* res before anything is written to it.
NoHttp == [headersSent |-> FALSE, status |-> 0, body |-> "", ended |-> FALSE]

SessIdle ==
  /\ sdkMode = "captured"
  /\ serverTransport = NoTransport
  /\ rq = [r \in Requests |-> NoRequest]
  /\ conn = [r \in Requests |-> <<>>]
  /\ http = [r \in Requests |-> NoHttp]
  /\ closed = [r \in Requests |-> FALSE]
  /\ transportClosed = [r \in Requests |-> FALSE]
  /\ inFlightAtClose = [r \in Requests |-> {}]

\* The catch of the route handler logs the error and writes nothing.
CatchResponse_Silent(h) == h

\* The catch of the route handler: res.status(500).json({ error: 'Internal
\* server error' }) unless res.headersSent; nothing is written otherwise.
CatchResponse(h) ==
  IF ~h.headersSent
    THEN [headersSent |-> TRUE, status |-> 500, body |-> "Internal server error",
          ended |-> TRUE]
    ELSE h

\* The route handler of request r runs to its first await: it creates the
\* transport of r and registers the close handler on res.
RequestArrives(r) ==
  /\ rq[r].pc = "none"
  /\ rq' = [rq EXCEPT ![r].pc = "created"]
  /\ UNCHANGED <<sdkMode, serverTransport, conn, http, closed, transportClosed,
               inFlightAtClose>>
  /\ UNCHANGED <<saltVars, toolVars, resVars, startVars>>
  /\ UNCHANGED scanVars

\* new StreamableHTTPServerTransport(...) throws: the catch answers.
CreateThrows(r) ==
  /\ rq[r].pc = "none"
  /\ rq' = [rq EXCEPT ![r].pc = "failedCreate"]
  /\ http' = [http EXCEPT ![r] = CatchResponse(@)]
  /\ UNCHANGED <<sdkMode, serverTransport, conn, closed, transportClosed,
               inFlightAtClose>>
  /\ UNCHANGED <<saltVars, toolVars, resVars, startVars>>
  /\ UNCHANGED scanVars

\* The transport request r is handled on: its own, new StreamableHTTPServerTransport.
TransportOf(r) == r

\* await this.mcpServer.connect(transport)
Connect(r) ==
  /\ rq[r].pc = "created"
  /\ serverTransport' = TransportOf(r)
  /\ rq' = [rq EXCEPT ![r].pc = "connected"]
  /\ UNCHANGED <<sdkMode, conn, http, closed, transportClosed,
               inFlightAtClose>>
  /\ UNCHANGED <<saltVars, toolVars, resVars, startVars>>
  /\ UNCHANGED scanVars

\* await this.mcpServer.connect(transport) rejects: the catch answers.
ConnectThrows(r) ==
  /\ rq[r].pc = "created"
  /\ rq' = [rq EXCEPT ![r].pc = "failedConnect"]
  /\ http' = [http EXCEPT ![r] = CatchResponse(@)]
  /\ UNCHANGED <<sdkMode, serverTransport, conn, closed, transportClosed,
               inFlightAtClose>>
  /\ UNCHANGED <<saltVars, toolVars, resVars, startVars>>
  /\ UNCHANGED scanVars

\* await transport.handleRequest(req, res, req.body): the transport of r takes
\* the message with id 1 and hands it to the server, which dispatches it to the
\* tool callback; the callback awaits the implementation.
HandleRequest(r) ==
  /\ rq[r].pc = "connected"
  /\ rq' = [rq EXCEPT ![r].pc = "handling", ![r].via = serverTransport]
  /\ UNCHANGED <<sdkMode, serverTransport, conn, http, closed, transportClosed,
               inFlightAtClose>>
  /\ UNCHANGED <<saltVars, toolVars, resVars, startVars>>
  /\ UNCHANGED scanVars

\* await transport.handleRequest(req, res, req.body) rejects, before the
\* transport wrote the response head or after it; the catch answers.
DelegateThrows(r) ==
  /\ rq[r].pc = "connected"
  /\ rq' = [rq EXCEPT ![r].pc = "failedDelegate"]
  /\ \E headWritten \in BOOLEAN :
       http' = [http EXCEPT ![r] =
                  CatchResponse(IF headWritten
                                  THEN [@ EXCEPT !.headersSent = TRUE, !.status = 200]
                                  ELSE @)]
  /\ UNCHANGED <<sdkMode, serverTransport, conn, closed, transportClosed,
               inFlightAtClose>>
  /\ UNCHANGED <<saltVars, toolVars, resVars, startVars>>
  /\ UNCHANGED scanVars

\* The transport the response of request r is sent through.
ResponseTransport(r) ==
  IF sdkMode = "captured" THEN rq[r].via ELSE serverTransport

\* Transport t is open and has a request with id 1 that is not answered yet.
AwaitsId1(t) ==
  \E q \in Requests : TransportOf(q) = t /\ rq[q].pc = "handling" /\ ~transportClosed[q]

\* The connection the response sent through transport t is written to: that of
\* the request with id 1 pending on t.
ConnectionOf(t) ==
  CHOOSE q \in Requests : TransportOf(q) = t /\ rq[q].pc = "handling" /\ ~transportClosed[q]

\* The tool callback of request r resolves (with a result or an error-flagged
\* result: it never throws) and the server sends the response with id 1: the
\* transport it is sent through writes it to the connection on which id 1 is
\* pending, if any; else it is dropped.
HandlerCompletes(r) ==
  /\ rq[r].pc = "handling"
  /\ LET t == ResponseTransport(r)
     IN  IF t # NoTransport /\ AwaitsId1(t)
           THEN LET c == ConnectionOf(t)
                IN  /\ conn' = [conn EXCEPT ![c] = Append(@, [id |-> 1, resultOf |-> r])]
                    /\ http' = [http EXCEPT ![c] =
                                  [headersSent |-> TRUE, status |-> 200,
                                   body |-> "jsonrpc", ended |-> TRUE]]
                    /\ rq' = [q \in Requests |->
                                IF q = r \/ q = c THEN [rq[q] EXCEPT !.pc = "done"]
                                ELSE rq[q]]
           ELSE /\ conn' = conn
                /\ http' = http
                /\ rq' = [rq EXCEPT ![r].pc = "done"]
  /\ UNCHANGED <<sdkMode, serverTransport, closed, transportClosed,
               inFlightAtClose>>
  /\ UNCHANGED <<saltVars, toolVars, resVars, startVars>>
  /\ UNCHANGED scanVars

\* The transport of r has been connected to the server: connect() made the
\* server the listener of the transport's close.
WasConnected(r) == rq[r].pc \in {"connected", "handling", "done", "failedDelegate"}

\* The route handler of r registers the close handler only once it has called
\* transport.handleRequest.
CloseHandlerRegistered_AfterHandling(r) == rq[r].pc \in {"handling", "done"}

\* The route handler of r has run res.on('close', ...): it does so right after
\* it created the transport, before its first await.
CloseHandlerRegistered(r) == rq[r].pc \notin {"none", "failedCreate"}

\* res of request r emits 'close' (the response ended or the client went away):
\* the handler registered on it, if any, calls transport.close(), which drops
\* the transport's pending requests; the server, told that its transport
\* closed, detaches from the transport it is attached to.
Close(r) ==
  /\ rq[r].pc # "none"
  /\ ~closed[r]
  /\ closed' = [closed EXCEPT ![r] = TRUE]
  /\ IF CloseHandlerRegistered(r)
       THEN /\ transportClosed' = [transportClosed EXCEPT ![r] = TRUE]
            /\ inFlightAtClose' =
                 [inFlightAtClose EXCEPT ![r] = {q \in Requests : rq[q].pc = "handling"}]
            /\ serverTransport' = IF WasConnected(r) THEN NoTransport ELSE serverTransport
       ELSE UNCHANGED <<transportClosed, inFlightAtClose, serverTransport>>
  /\ UNCHANGED <<sdkMode, rq, conn, http>>
  /\ UNCHANGED <<saltVars, toolVars, resVars, startVars>>
  /\ UNCHANGED scanVars

(***************************************************************************)
(* Specifications of the parts.                                            *)
(***************************************************************************)

\* TS_SALT is not set in the environment of the process.
EnvUnset == envTsSalt = Null

SaltIdle ==
  /\ urlSalt = Null
  /\ saltCall = NoCall
  /\ nSaltCalls = 0
  /\ lastGet = Null
  /\ lastUri = [id \in UriIds |-> Null]

ToolsIdle ==
  /\ registeredTools = <<>>
  /\ mcpTools = <<>>
  /\ toolCall = NoRegCall
  /\ nToolCalls = 0
  /\ inv = Idle

ResourcesIdle ==
  /\ registeredResources = <<>>
  /\ mcpResources = <<>>
  /\ resCall = NoRegCall
  /\ nResCalls = 0
  /\ rd = NoRead

StartIdle ==
  /\ startPc = "new"
  /\ resPc = "idle"
  /\ listening = FALSE
  /\ dirExists = TRUE
  /\ dirFiles = {}
  /\ unreadable = {}
  /\ bundles = {}
  /\ logged = <<>>
  /\ discovered = <<>>
  /\ observed = NoObservation

\* The salt module after it is loaded.
InitSalt ==
  /\ SaltIdle /\ ToolsIdle /\ ResourcesIdle /\ StartIdle /\ SessIdle /\ ScanIdle
  /\ now = StartTime
  /\ envTsSalt \in TsSaltValues

NextSalt ==
  \/ Tick
  \/ initializeUrlSalt
  \/ CallGetUrlSalt
  \/ CallCreateSaltedUri

SpecSalt == InitSalt /\ [][NextSalt]_vars

\* A ToolRegistry after construction, and the calls of register and
\* registerMultiple on it.
InitToolRegistry ==
  /\ SaltIdle /\ ToolsIdle /\ ResourcesIdle /\ StartIdle /\ SessIdle /\ EnvUnset /\ ScanIdle
  /\ now = StartTime

NextToolRegistry ==
  \/ CallToolRegister
  \/ CallToolRegisterMultiple

SpecToolRegistry == InitToolRegistry /\ [][NextToolRegistry]_vars

\* A ToolRegistry on which registerMultiple has registered a list of tools, and
\* the calls the SDK then makes of the installed callbacks.
InitToolCallback ==
  /\ SaltIdle /\ ResourcesIdle /\ StartIdle /\ SessIdle /\ EnvUnset /\ ScanIdle
  /\ now = StartTime
  /\ \E tools \in ToolBatches :
       LET r == ToolRegisterMultiple(<<>>, <<>>, tools, 0)
       IN  /\ tools # <<>>
           /\ ~r.threw
           /\ registeredTools = r.reg
           /\ mcpTools = r.mcp
           /\ toolCall = [op |-> "registerMultiple",
                          names |-> [i \in 1..Len(tools) |-> tools[i].name],
                          threw |-> FALSE, done |-> r.done]
  /\ nToolCalls = 1
  /\ inv = Idle

NextToolCallback ==
  \/ ToolCallStart
  \/ ImplReturn
  \/ ImplThrow

SpecToolCallback == InitToolCallback /\ [][NextToolCallback]_vars

\* A ResourceRegistry after construction, and the calls of register and
\* registerMultiple on it.
InitResourceRegistry ==
  /\ SaltIdle /\ ToolsIdle /\ ResourcesIdle /\ StartIdle /\ SessIdle /\ EnvUnset /\ ScanIdle
  /\ now = StartTime

NextResourceRegistry ==
  \/ CallResourceRegister
  \/ CallResourceRegisterMultiple

SpecResourceRegistry == InitResourceRegistry /\ [][NextResourceRegistry]_vars

\* The calls of register and registerMultiple made on one registry before its
\* callbacks are exercised.
MaxBoundaryCalls == 2

\* A ToolRegistry and a ResourceRegistry after construction, seen from their
\* callers: the calls of register and registerMultiple, and then one call by
\* the SDK of an installed callback (the callbacks keep no state between
\* calls). The two registries share no state, so a behaviour exercises one of
\* them.
BoundaryToolRegister ==
  /\ ResourcesIdle /\ inv = Idle /\ nToolCalls < MaxBoundaryCalls
  /\ CallToolRegister
BoundaryToolRegisterMultiple ==
  /\ ResourcesIdle /\ inv = Idle /\ nToolCalls < MaxBoundaryCalls
  /\ CallToolRegisterMultiple
BoundaryToolCallStart == ResourcesIdle /\ inv = Idle /\ ToolCallStart
BoundaryImplReturn == ResourcesIdle /\ ImplReturn
BoundaryImplThrow == ResourcesIdle /\ ImplThrow
BoundaryResourceRegister ==
  /\ ToolsIdle /\ rd = NoRead /\ nResCalls < MaxBoundaryCalls
  /\ CallResourceRegister
BoundaryResourceRegisterMultiple ==
  /\ ToolsIdle /\ rd = NoRead /\ nResCalls < MaxBoundaryCalls
  /\ CallResourceRegisterMultiple
BoundaryReadStart == ToolsIdle /\ rd = NoRead /\ ReadStart
BoundaryProducerReturn == ToolsIdle /\ ProducerReturn
BoundaryProducerThrow == ToolsIdle /\ ProducerThrow

InitRegistryBoundary ==
  /\ SaltIdle /\ ToolsIdle /\ ResourcesIdle /\ StartIdle /\ SessIdle /\ EnvUnset /\ ScanIdle
  /\ now = StartTime

NextRegistryBoundary ==
  \/ BoundaryToolRegister
  \/ BoundaryToolRegisterMultiple
  \/ BoundaryToolCallStart
  \/ BoundaryImplReturn
  \/ BoundaryImplThrow
  \/ BoundaryResourceRegister
  \/ BoundaryResourceRegisterMultiple
  \/ BoundaryReadStart
  \/ BoundaryProducerReturn
  \/ BoundaryProducerThrow

SpecRegistryBoundary == InitRegistryBoundary /\ [][NextRegistryBoundary]_vars

\* A ResourceRegistry on which registerMultiple has registered a list of
\* resources, and the reads the SDK then makes through the installed callbacks.
InitResourceRead ==
  /\ SaltIdle /\ ToolsIdle /\ StartIdle /\ SessIdle /\ EnvUnset /\ ScanIdle
  /\ now = StartTime
  /\ \E resources \in ResourceBatches :
       LET r == ResourceRegisterMultiple(<<>>, <<>>, resources, 0)
       IN  /\ resources # <<>>
           /\ ~r.threw
           /\ registeredResources = r.reg
           /\ mcpResources = r.mcp
           /\ resCall = [op |-> "registerMultiple",
                         names |-> [i \in 1..Len(resources) |-> resources[i].uri],
                         threw |-> FALSE, done |-> r.done]
  /\ nResCalls = 1
  /\ rd = NoRead

NextResourceRead ==
  \/ ReadStart
  \/ ProducerReturn
  \/ ProducerThrow

SpecResourceRead == InitResourceRead /\ [][NextResourceRead]_vars

\* The discovery loop at one file of src/ts-resources, for any file of the
\* bounded inputs.
InitScan ==
  /\ SaltIdle /\ ToolsIdle /\ ResourcesIdle /\ StartIdle /\ SessIdle /\ EnvUnset
  /\ now = StartTime
  /\ scanFile \in ScanInputs
  /\ scanConfig = NoConfig

NextScan == ScanFile

SpecScan == InitScan /\ [][NextScan]_vars

\* The modules after they are loaded, in a working directory whose
\* src/ts-resources is missing or holds any set of the candidate files, some
\* of them unreadable; initializeUrlSalt() and getAvailableResources() are
\* called in any order.
InitDiscovery ==
  /\ SaltIdle /\ ToolsIdle /\ ResourcesIdle /\ SessIdle /\ EnvUnset /\ ScanIdle
  /\ now = StartTime
  /\ startPc = "new"
  /\ resPc = "idle"
  /\ listening = FALSE
  /\ dirExists \in BOOLEAN
  /\ dirFiles \in SUBSET {CandidateFiles[k].file : k \in 1..Len(CandidateFiles)}
  /\ dirExists \/ dirFiles = {}
  /\ unreadable \in SUBSET dirFiles
  /\ bundles = {}
  /\ logged = <<>>
  /\ discovered = <<>>
  /\ observed = NoObservation

NextDiscovery ==
  \/ initializeUrlSalt
  \/ CallGetAvailableResources

SpecDiscovery == InitDiscovery /\ [][NextDiscovery]_vars

\* The registries of the listening server: availableTools and the static
\* resource (src/ts-resources missing).
SessionTools == ToolRegisterMultiple(<<>>, <<>>, availableTools, 0)
SessionResources == ResourceRegisterMultiple(<<>>, <<>>, <<helloWorldResource>>, 0)

\* The listening server with its one McpServer, built against either version
\* of the SDK, and the requests that arrive on /mcp.
InitSession ==
  /\ EnvUnset
  /\ now = StartTime
  /\ urlSalt = SaltAt(StartTime)
  /\ saltCall = NoCall /\ nSaltCalls = 0 /\ lastGet = Null
  /\ lastUri = [id \in UriIds |-> Null]
  /\ registeredTools = SessionTools.reg
  /\ mcpTools = SessionTools.mcp
  /\ toolCall = NoRegCall /\ nToolCalls = 0 /\ inv = Idle
  /\ registeredResources = SessionResources.reg
  /\ mcpResources = SessionResources.mcp
  /\ resCall = NoRegCall /\ nResCalls = 0 /\ rd = NoRead
  /\ startPc = "listening" /\ resPc = "done" /\ listening = TRUE
  /\ dirExists = FALSE /\ dirFiles = {} /\ unreadable = {} /\ bundles = {}
  /\ logged = discoveryWarnings(urlSalt, FALSE, {}, {})
  /\ discovered = <<helloWorldResource>>
  /\ observed = NoObservation
  /\ sdkMode \in SdkModes
  /\ serverTransport = NoTransport
  /\ rq = [r \in Requests |-> NoRequest]
  /\ conn = [r \in Requests |-> <<>>]
  /\ http = [r \in Requests |-> NoHttp]
  /\ closed = [r \in Requests |-> FALSE]
  /\ transportClosed = [r \in Requests |-> FALSE]
  /\ inFlightAtClose = [r \in Requests |-> {}]
  /\ ScanIdle

NextSession ==
  \/ \E r \in Requests : RequestArrives(r)
  \/ \E r \in Requests : CreateThrows(r)
  \/ \E r \in Requests : Connect(r)
  \/ \E r \in Requests : ConnectThrows(r)
  \/ \E r \in Requests : HandleRequest(r)
  \/ \E r \in Requests : DelegateThrows(r)
  \/ \E r \in Requests : HandlerCompletes(r)
  \/ \E r \in Requests : Close(r)

SpecSession == InitSession /\ [][NextSession]_vars

\* The server process: main() from its first statement, in a working directory
\* whose src/ts-resources is missing or holds any set of the candidate files.
Init ==
  /\ SaltIdle /\ ToolsIdle /\ ResourcesIdle /\ SessIdle /\ ScanIdle
  /\ now = StartTime
  /\ envTsSalt \in TsSaltValues
  /\ startPc = "new"
  /\ resPc = "idle"
  /\ listening = FALSE
  /\ dirExists \in BOOLEAN
  /\ dirFiles \in SUBSET {CandidateFiles[k].file : k \in 1..Len(CandidateFiles)}
  /\ dirExists \/ dirFiles = {}
  /\ unreadable \in SUBSET dirFiles
  /\ bundles \in SUBSET {CandidateFiles[k].filename : k \in 1..Len(CandidateFiles)}
  /\ logged = <<>>
  /\ discovered = <<>>
  /\ observed = NoObservation

Next ==
  \/ Construct
  \/ StartInitializeUrlSalt
  \/ StartSetupResources
  \/ DiscoveryResolves
  \/ RegisterResources
  \/ Listen
  \/ StartFails
  \/ GetInfo
  \/ ReadRegistered
  \/ ImplementationSettles
  \/ ClockTick

Spec == Init /\ [][Next]_vars

\* The server after a startup at StartTime in a working directory whose
\* src/ts-resources holds carousel.tsx: the requests it serves, and the
\* operations of the salt module, which stay callable.
RunningFiles == {"carousel.tsx"}
RunningCalls == discoverySaltCalls(SaltAt(StartTime), TRUE, RunningFiles, {})
RunningResources ==
  registerMultipleAsync(<<>>, <<>>,
                        getAvailableResources(SaltAt(StartTime), TRUE, RunningFiles, {}))

InitRunning ==
  /\ EnvUnset /\ SessIdle /\ ScanIdle
  /\ now = StartTime
  /\ urlSalt = SaltAt(StartTime)
  /\ saltCall = RunningCalls[Len(RunningCalls)]
  /\ nSaltCalls = 1 + Len(RunningCalls)
  /\ lastGet = Null
  /\ lastUri = [id \in UriIds |-> IF id = "carousel" THEN RunningCalls[1].value ELSE Null]
  /\ registeredTools = SessionTools.reg
  /\ mcpTools = SessionTools.mcp
  /\ toolCall = [op |-> "registerMultiple",
                 names |-> [i \in 1..Len(availableTools) |-> availableTools[i].name],
                 threw |-> FALSE, done |-> Len(availableTools)]
  /\ nToolCalls = 1 /\ inv = Idle
  /\ registeredResources = RunningResources.reg
  /\ mcpResources = RunningResources.mcp
  /\ resCall = [op |-> "registerMultiple",
                names |-> [i \in 1..Len(RunningResources.mcp) |->
                             RunningResources.mcp[i].uri],
                threw |-> FALSE, done |-> RunningResources.done]
  /\ nResCalls = 1 /\ rd = NoRead
  /\ startPc = "listening" /\ resPc = "done" /\ listening = TRUE
  /\ dirExists = TRUE /\ dirFiles = RunningFiles /\ unreadable = {}
  /\ bundles \in SUBSET {"carousel"}
  /\ logged = <<>>
  /\ discovered = getAvailableResources(urlSalt, TRUE, RunningFiles, {})
  /\ observed = NoObservation

NextRunning ==
  \/ ClockTick
  \/ initializeUrlSalt
  \/ CallGetUrlSalt
  \/ ListTools
  \/ GetInfo
  \/ ReadRegistered
  \/ ImplementationSettles

SpecRunning == InitRunning /\ [][NextRunning]_vars

(***************************************************************************)
(* Properties.                                                             *)
(***************************************************************************)

\* The arguments violate the tool's input schema: they are no object at all,
\* or an object that z.object(schema).parse rejects.
ViolatesSchema(args) == ~IsObject(args) \/ ~zodParse(args.fields).ok

\* The texts a validation failure of the callback can carry for a tool name.
IsValidationText(text, name) ==
  \E m \in {"message: Required", "message: Expected string, received number",
            "Expected object, received null", "Expected object, received string",
            "Required"} :
    text = "Input validation failed for " \o name \o ": " \o m

\* C1: of two requests in flight at once on /mcp, both with JSON-RPC id 1, each
\* receives on its own connection exactly the result of its own call and never
\* the other's, in every interleaving (no client going away meanwhile).
C1_EachCallerGetsItsOwnResult ==
  (\A q \in Requests : ~closed[q]) =>
    \A r \in Requests :
      /\ \A i \in 1..Len(conn[r]) : conn[r][i].resultOf = r
      /\ rq[r].pc = "done" => conn[r] = <<[id |-> 1, resultOf |-> r]>>

\* C2: for a tool registered with an inputSchema and raw arguments of any kind
\* that violate the schema, the callback returns an error-flagged result that
\* reports the validation failure, and the implementation is never called in
\* that invocation.
C2_InvalidArgsNeverReachImplementation ==
  (inv.state # "idle" /\ inv.tool.inputSchema /\ ViolatesSchema(inv.raw))
    => /\ inv.implCalls = 0
       /\ inv.state = "done"
       /\ inv.outcome = "returned"
       /\ inv.result.isError = "true"
       /\ IsValidationText(inv.result.content, inv.tool.name)

\* C3 as stated: whenever the implementation throws, the callback returns
\* isError = true with the text 'Error executing <name>: <text of what was
\* thrown>'.
C3_ThrowReportedWithItsMessage ==
  (inv.state = "done" /\ inv.implOutcome = "threw")
    => /\ inv.outcome = "returned"
       /\ inv.result.isError = "true"
       /\ inv.result.content =
            "Error executing " \o inv.tool.name \o ": " \o inv.implThrown.text

\* C3 amended: whenever the implementation throws or rejects, the callback
\* returns (never throws) a result with isError = true whose text is 'Error
\* executing <name>: <m>', m being the thrown value's message when that value is
\* an Error and 'Unknown error' when it is not.
C3_ThrowReportedAsErrorResult ==
  (inv.state = "done" /\ inv.implOutcome = "threw")
    => /\ inv.outcome = "returned"
       /\ inv.result.isError = "true"
       /\ inv.result.structuredContent = Null
       /\ inv.implThrown.isErrorInstance =>
            inv.result.content =
              "Error executing " \o inv.tool.name \o ": " \o inv.implThrown.text
       /\ ~inv.implThrown.isErrorInstance =>
            inv.result.content =
              "Error executing " \o inv.tool.name \o ": Unknown error"

\* An implementation threw a value that is no Error and the callback answered.
C3_Witness ==
  /\ inv.state = "done"
  /\ inv.implOutcome = "threw"
  /\ ~inv.implThrown.isErrorInstance
  /\ inv.result.isError = "true"

\* C4: when the raw arguments satisfy the inputSchema and the implementation
\* returns normally, the implementation was called exactly once, with the value
\* the schema validator produced (unknown keys stripped), and the callback
\* returns the implementation's result unchanged.
C4_ValidCallPassesParsedArgsAndResult ==
  (/\ inv.state = "done"
   /\ inv.tool.inputSchema
   /\ ~ViolatesSchema(inv.raw)
   /\ inv.implOutcome = "returned")
    => /\ inv.implCalls = 1
       /\ inv.implArg.kind = "object"
       /\ DOMAIN inv.implArg.fields = DOMAIN inv.raw.fields \cap SchemaFields
       /\ \A f \in DOMAIN inv.implArg.fields :
            inv.implArg.fields[f] = inv.raw.fields[f]
       /\ inv.outcome = "returned"
       /\ inv.result = inv.implResult

\* A valid call whose raw object carried a key the schema does not know, so
\* that the validated value differs from the raw one.
C4_Witness ==
  /\ inv.state = "done"
  /\ inv.tool.inputSchema
  /\ ~ViolatesSchema(inv.raw)
  /\ "extra" \in DOMAIN inv.raw.fields
  /\ inv.implOutcome = "returned"
  /\ inv.result.structuredContent = "data"

\* C5: the content object a read returns has exactly one of text and blob,
\* whatever the producer returned.
C5_ExactlyOneOfTextAndBlob ==
  (rd.state = "done" /\ rd.outcome = "returned")
    => /\ Len(rd.contents) = 1
       /\ ("text" \in DOMAIN rd.contents[1]) # ("blob" \in DOMAIN rd.contents[1])

\* A read whose producer returned both text and blob.
C5_Witness ==
  /\ rd.state = "done"
  /\ rd.outcome = "returned"
  /\ rd.produced.text # Null
  /\ rd.produced.blob # Null

\* No name was handed to mcpServer.registerTool twice, and registeredTools holds
\* exactly the definitions handed over.
ToolsRegisteredOnce ==
  /\ \A i, j \in 1..Len(mcpTools) :
       mcpTools[i].name = mcpTools[j].name => i = j
  /\ DOMAIN registeredTools = {mcpTools[i].name : i \in 1..Len(mcpTools)}
  /\ \A i \in 1..Len(mcpTools) : registeredTools[mcpTools[i].name] = mcpTools[i]

\* C6: after any sequence of register and registerMultiple calls no tool name is
\* registered twice, and a register call for a name already present throws and
\* leaves the registered names and the stored definitions as they were.
C6_NoToolRegisteredTwice ==
  /\ []ToolsRegisteredOnce
  /\ [][(/\ nToolCalls' # nToolCalls
         /\ toolCall'.op = "register"
         /\ toolCall'.names[1] \in DOMAIN registeredTools)
          => /\ toolCall'.threw
             /\ registeredTools' = registeredTools
             /\ mcpTools' = mcpTools]_vars

\* A register call was rejected for a name that is present.
C6_Witness ==
  /\ toolCall.op = "register"
  /\ toolCall.threw
  /\ toolCall.names[1] \in DOMAIN registeredTools
  /\ Len(mcpTools) = 2

\* No uri was handed to mcpServer.registerResource twice, and
\* registeredResources holds exactly the definitions handed over.
ResourcesRegisteredOnce ==
  /\ \A i, j \in 1..Len(mcpResources) :
       mcpResources[i].uri = mcpResources[j].uri => i = j
  /\ DOMAIN registeredResources = {mcpResources[i].uri : i \in 1..Len(mcpResources)}
  /\ \A i \in 1..Len(mcpResources) :
       registeredResources[mcpResources[i].uri] = mcpResources[i]

\* C7: after any sequence of register and registerMultiple calls no uri is
\* registered twice, and a register call for a uri already present throws and
\* leaves the registered uris and the stored definitions as they were.
C7_NoResourceRegisteredTwice ==
  /\ []ResourcesRegisteredOnce
  /\ [][(/\ nResCalls' # nResCalls
         /\ resCall'.op = "register"
         /\ resCall'.names[1] \in DOMAIN registeredResources)
          => /\ resCall'.threw
             /\ registeredResources' = registeredResources
             /\ mcpResources' = mcpResources]_vars

\* A register call was rejected for a uri that is present.
C7_Witness ==
  /\ resCall.op = "register"
  /\ resCall.threw
  /\ resCall.names[1] \in DOMAIN registeredResources
  /\ Len(mcpResources) = 2

\* C8: the HTTP listener accepts requests only after the salt is initialized,
\* every tool and every static and discovered resource is registered and
\* setupMCPResources() has completed; no request sees a registry that misses a
\* tool or resource the startup registers.
C8_ListenAfterRegistrations ==
  /\ listening =>
       /\ urlSalt # Null
       /\ resPc = "done"
       /\ \A i \in 1..Len(availableTools) :
            availableTools[i].name \in DOMAIN registeredTools
       /\ helloWorldResource.uri \in DOMAIN registeredResources
       /\ discovered = getAvailableResources(urlSalt, dirExists, dirFiles, unreadable)
       /\ \A i \in 1..Len(discovered) :
            discovered[i].uri \in DOMAIN registeredResources
  /\ observed.seen =>
       /\ observed.tools = {availableTools[i].name : i \in 1..Len(availableTools)}
       /\ observed.resources = {discovered[i].uri : i \in 1..Len(discovered)}
       /\ Len(discovered) >= 1

\* A request was served after a startup that discovered two files.
C8_Witness ==
  /\ listening
  /\ observed.seen
  /\ Len(discovered) = 3

\* C9: while initializeUrlSalt() has not run, getUrlSalt() and
\* createSaltedUri(id) throw and return no value.
C9_ReadBeforeInitThrows ==
  [][(/\ nSaltCalls' # nSaltCalls
      /\ urlSalt = Null
      /\ saltCall'.op \in {"getUrlSalt", "createSaltedUri"})
       => /\ saltCall'.outcome = "throw"
          /\ saltCall'.value = SaltNotInitialized
          /\ lastGet' = lastGet
          /\ lastUri' = lastUri]_vars

\* createSaltedUri was called before the salt was initialized.
C9_Witness ==
  /\ urlSalt = Null
  /\ saltCall.op = "createSaltedUri"
  /\ saltCall.outcome = "throw"

\* C10: once the salt is initialized, every later getUrlSalt() returns the same
\* string and every later createSaltedUri(id) the same URI for the same id,
\* whatever salt operations run in between.
C10_SaltStableAfterInit ==
  [][/\ lastGet # Null => lastGet' = lastGet
     /\ \A id \in UriIds : lastUri[id] # Null => lastUri'[id] = lastUri[id]]_vars

\* C11: when TS_SALT is set to a non-empty value, the salt initializeUrlSalt()
\* sets is that value verbatim (so that processes started at different times
\* with the same TS_SALT build the same createSaltedUri(id) for every id).
C11_OverrideUsedVerbatim ==
  (envTsSalt # Null /\ envTsSalt # "" /\ urlSalt # Null) => urlSalt = envTsSalt

\* The response with the result of r's own call, alone on r's connection.
OwnResponse(r) == <<[id |-> 1, resultOf |-> r]>>

\* The registries are those the server started with.
RegistriesAsStarted ==
  /\ registeredTools = SessionTools.reg
  /\ registeredResources = SessionResources.reg

\* C12: when the connection of a request closes while another request is being
\* handled on the shared server, the other request (its own connection still
\* open) receives its own response once its handler ends, and the registries
\* are unchanged.
C12_CloseLeavesOtherRequestsAlone ==
  /\ RegistriesAsStarted
  /\ \A c \in Requests : \A r \in inFlightAtClose[c] \ {c} :
       (rq[r].pc = "done" /\ ~closed[r]) => conn[r] = OwnResponse(r)

\* The messages the read callback can take from a thrown value.
ThrownMessages == {e.text : e \in {t \in Thrown : t.isErrorInstance}} \cup {"Unknown error"}

\* C13: when the producer of a resource throws or rejects, the read callback
\* fails with an Error whose message is 'Error reading resource <uri>: <message>'
\* for the uri of that resource, and it returns no content object.
C13_ProducerFailureNamesTheUri ==
  rd.outcome = "rejected" =>
    /\ \E m \in ThrownMessages :
         rd.error = "Error reading resource " \o rd.resource.uri \o ": " \o m
    /\ rd.contents = <<>>
    /\ rd.produced = NoOutput

C13_Witness ==
  /\ rd.state = "done"
  /\ rd.outcome = "rejected"
  /\ rd.resource.uri = "dbk-ts://x?salt=1"
  /\ rd.error = "Error reading resource dbk-ts://x?salt=1: Unknown error"

\* The registered definitions that discovery made from files.
RegisteredFromFiles ==
  {u \in DOMAIN registeredResources : "filename" \in DOMAIN registeredResources[u]}

\* C14: a discovered resource whose bundle is missing or unreadable is in the
\* list discovery returned and in the registry of the listening server, and a
\* read of it resolves to one content object whose text is the diagnostic
\* naming the file; the resources whose bundle is there are read as usual.
C14_MissingBundleDegradesContentOnly ==
  /\ listening =>
       /\ Len(discovered) = 1 + Cardinality(dirFiles)
       /\ Cardinality(RegisteredFromFiles) = Cardinality(dirFiles)
       /\ \A k \in 1..Len(CandidateFiles) :
            CandidateFiles[k].file \in dirFiles =>
              \E i \in 1..Len(discovered) :
                /\ "filename" \in DOMAIN discovered[i]
                /\ discovered[i].filename = CandidateFiles[k].filename
                /\ discovered[i].uri \in RegisteredFromFiles
  /\ (rd.state = "done" /\ "filename" \in DOMAIN rd.resource) =>
       /\ rd.outcome = "returned"
       /\ rd.error = ""
       /\ Len(rd.contents) = 1
       /\ DOMAIN rd.contents[1] = {"uri", "mimeType", "text"}
       /\ rd.contents[1].uri = rd.resource.uri
       /\ rd.contents[1].text =
            IF rd.resource.filename \in bundles
              THEN BundleHtml(rd.resource.filename)
              ELSE "// Error: Failed to read compiled JavaScript for "
                     \o rd.resource.filename
                     \o "\n// ENOENT: no such file or directory"
                     \o "\n// Hint: Make sure to run \"pnpm run build\" to compile TypeScript files"
                     \o "\n// Expected file: dist/ts-resources/"
                     \o rd.resource.filename \o ".js"

\* Two files were discovered, the bundle of one is missing, and that one was read.
C14_Witness ==
  /\ listening
  /\ dirFiles = {"carousel.tsx", "map.ts"}
  /\ bundles = {"carousel"}
  /\ rd.state = "done"
  /\ rd.outcome = "returned"
  /\ "filename" \in DOMAIN rd.resource
  /\ rd.resource.filename = "map"
  /\ Cardinality(DOMAIN registeredResources) = 3

\* C15: discovery returns exactly one definition for every candidate file of
\* the directory, whether or not the metadata of a file could be read or its
\* resource could be constructed.
C15_OneDefinitionPerFile ==
  (resPc = "called" /\ dirExists) =>
    /\ Len(discovered) = 1 + Cardinality(dirFiles)
    /\ \A k \in 1..Len(CandidateFiles) :
         CandidateFiles[k].file \in dirFiles =>
           \E i \in 2..Len(discovered) :
             discovered[i].filename = CandidateFiles[k].filename

\* C16: when src/ts-resources does not exist, the discovery logs a warning and
\* resolves to no definitions, and the startup goes on without failing: the
\* static resource and the tools are registered and the server listens.
C16_MissingDirectoryIsNotFatal ==
  ~dirExists =>
    /\ startPc # "exited"
    /\ resPc # "failed"
    /\ resPc \in {"registering", "done"} =>
         /\ discovered = <<helloWorldResource>>
         /\ logged = <<"TypeScript resources directory not found:">>
    /\ startPc = "listening" =>
         /\ listening
         /\ DOMAIN registeredResources = {helloWorldResource.uri}
         /\ DOMAIN registeredTools = {theTool.name, hotelSearchTool.name}
    /\ observed.seen =>
         /\ observed.resources = {helloWorldResource.uri}
         /\ observed.tools = {theTool.name, hotelSearchTool.name}

\* The server listens and answered a request though the directory is missing.
C16_Witness ==
  /\ ~dirExists
  /\ listening
  /\ observed.seen
  /\ logged # <<>>

\* The route handler of r ended in its catch.
Failed(r) == rq[r].pc \in {"failedCreate", "failedConnect", "failedDelegate"}

\* The generic internal-error response, complete.
InternalError(h) ==
  h.status = 500 /\ h.body = "Internal server error" /\ h.headersSent /\ h.ended

C18_EveryRequestAnswered ==
  \A r \in Requests :
    ((rq[r].pc = "done" \/ Failed(r)) /\ ~closed[r]) =>
      \/ conn[r] # <<>>
      \/ InternalError(http[r])

\* C19: the result of a handler whose client's connection closed while the
\* handler was running is written to no connection, neither the closed one
\* nor another's.
C19_LateResultDiscarded ==
  \A r \in Requests :
    r \in inFlightAtClose[r] =>
      \A c \in Requests : \A i \in 1..Len(conn[c]) : conn[c][i].resultOf # r

\* The uri without its '?salt=' parameter: the scheme and the uriId.
StripSalt(u) ==
  CASE u = "dbk-ts://x?salt=1" -> "dbk-ts://x"
    [] OTHER -> u

\* C20: the duplicate check of the resource registry compares the uris with
\* the salt parameter stripped: no two registered resources have the same
\* scheme and uriId, whether or not their uris carry a '?salt=' parameter.
C20_UniqueUpToSalt ==
  \A u, v \in DOMAIN registeredResources :
    StripSalt(u) = StripSalt(v) => u = v

\* Every tool of availableTools is registered.
AllToolsRegistered ==
  \A i \in 1..Len(availableTools) : availableTools[i].name \in DOMAIN registeredTools

\* C21 as stated: no tool is registered before the salt is initialized and the
\* resources are registered (salt, static resources, discovered resources,
\* tools, listening, in this order).
C21_ToolsRegisteredAfterResources ==
  registeredTools # <<>> => (urlSalt # Null /\ resPc = "done")

\* C21, amended: in every startup the tools are registered first (in the
\* constructor), then the salt is initialized, then the static resources are
\* registered, then the discovered ones, and only then the server listens.
C21_StartupOrder ==
  /\ urlSalt # Null => AllToolsRegistered
  /\ mcpResources # <<>> =>
       /\ urlSalt # Null
       /\ AllToolsRegistered
       /\ mcpResources[1] = helloWorldResource
       /\ \A i \in 2..Len(mcpResources) : "filename" \in DOMAIN mcpResources[i]
  /\ listening =>
       /\ resPc = "done"
       /\ mcpResources = discovered
       /\ Len(mcpResources) = 1 + Cardinality(dirFiles)

\* The server listens after a startup that registered the static resource and
\* two discovered ones.
C21_Witness ==
  /\ listening
  /\ Len(mcpResources) = 3
  /\ mcpResources[1] = helloWorldResource
  /\ AllToolsRegistered
  /\ urlSalt # Null

\* C22 as stated: no registry operation throws or rejects to its caller, a
\* duplicate identifier and a failing producer included.
C22_NoOperationThrows ==
  /\ ~toolCall.threw
  /\ ~resCall.threw
  /\ inv.outcome # "threw"
  /\ rd.outcome # "rejected"

\* C22, amended: the tool callback never throws or rejects, it returns a result
\* for every call; register and registerMultiple of both registries throw when
\* an identifier of the call is already registered, and only then; the read
\* callback rejects when its producer failed, and only then.
C22_OnlyToolCallbackNeverThrows ==
  /\ inv.state = "done" =>
       /\ inv.outcome = "returned"
       /\ inv.implOutcome = "threw" => inv.result.isError = "true"
  /\ IF toolCall.threw
       THEN /\ toolCall.done < Len(toolCall.names)
            /\ toolCall.names[toolCall.done + 1] \in DOMAIN registeredTools
       ELSE /\ toolCall.done = Len(toolCall.names)
            /\ \A i, j \in 1..Len(toolCall.names) :
                 toolCall.names[i] = toolCall.names[j] => i = j
  /\ IF resCall.threw
       THEN /\ resCall.done < Len(resCall.names)
            /\ resCall.names[resCall.done + 1] \in DOMAIN registeredResources
       ELSE /\ resCall.done = Len(resCall.names)
            /\ \A i, j \in 1..Len(resCall.names) :
                 resCall.names[i] = resCall.names[j] => i = j
  /\ rd.state = "done" =>
       /\ rd.outcome \in {"returned", "rejected"}
       /\ rd.outcome = "rejected" <=> rd.error # ""
       /\ rd.outcome = "returned" <=> Len(rd.contents) = 1

\* A registration threw on a duplicate name, and the callback of the tool then
\* returned an error result for an implementation that threw.
C22_Witness ==
  /\ toolCall.threw
  /\ inv.state = "done"
  /\ inv.implOutcome = "threw"
  /\ inv.outcome = "returned"

\* C23: the definitions one scan produces for distinct candidate files have
\* pairwise distinct URIs, so registering the discovered resources never fails
\* with the duplicate-URI error.
C23_DistinctFilesDistinctUris ==
  /\ \A i, j \in 1..Len(discovered) :
       discovered[i].uri = discovered[j].uri => i = j
  /\ resPc # "failed"

\* The warnings of the discovery loop for the candidate files.
CreationWarnings ==
  {"Failed to create resource for " \o CandidateFiles[k].file :
     k \in 1..Len(CandidateFiles)}

\* C24: a discovery that constructs resources while the salt is not initialized
\* does not complete normally: the salt-not-initialized error leaves it, so no
\* call returns a list from which the affected files were dropped.
C24_SaltErrorLeavesDiscovery ==
  resPc = "called" =>
    \A i \in 1..Len(logged) : logged[i] \notin CreationWarnings

\* C25: a read whose producer resolved returns exactly one content object; it
\* carries the uri and the mimeType of the registered definition and one
\* payload: the producer's text when it set one (also when it set a blob too),
\* else its blob when it set one, else the empty string as text.
C25_PayloadPrecedence ==
  (rd.state = "done" /\ rd.outcome = "returned") =>
    /\ Len(rd.contents) = 1
    /\ LET c == rd.contents[1]
           p == rd.produced
       IN  /\ c.uri = rd.resource.uri
           /\ c.mimeType = rd.resource.mimeType
           /\ \E i \in 1..Len(mcpResources) :
                mcpResources[i].uri = c.uri /\ mcpResources[i].mimeType = c.mimeType
           /\ p.text # Null =>
                DOMAIN c = {"uri", "mimeType", "text"} /\ c.text = p.text
           /\ (p.text = Null /\ p.blob # Null) =>
                DOMAIN c = {"uri", "mimeType", "blob"} /\ c.blob = p.blob
           /\ (p.text = Null /\ p.blob = Null) =>
                DOMAIN c = {"uri", "mimeType", "text"} /\ c.text = ""

\* A producer resolved with both a text and a blob, and the read returned the
\* text.
C25_Witness ==
  /\ rd.state = "done"
  /\ rd.outcome = "returned"
  /\ rd.produced.text = "hello"
  /\ rd.produced.blob = "AAEC"
  /\ rd.contents[1].text = "hello"

\* The first position of a list of identifiers that is already registered
\* (in registered) or repeats an earlier position; 0 when there is none.
FirstFailing(ids, registered) ==
  LET failing == {i \in 1..Len(ids) :
                    \/ ids[i] \in registered
                    \/ \E j \in 1..(i - 1) : ids[j] = ids[i]}
  IN  IF failing = {} THEN 0
      ELSE CHOOSE i \in failing : \A j \in failing : i <= j

\* The identifiers of the first n positions of a list.
Before(ids, n) == {ids[i] : i \in 1..n}

\* C26: registerMultiple registers the definitions in list order and stops at
\* the first failure: when position k fails, exactly the positions before k
\* have been added, none at k or later is, and the error reaches the caller;
\* without a failure the whole list is added. For both registries.
C26_RegisterMultipleStopsAtFirstFailure ==
  /\ [][(nToolCalls' # nToolCalls /\ toolCall'.op = "registerMultiple") =>
          LET ids == toolCall'.names
              k   == FirstFailing(ids, DOMAIN registeredTools)
              n   == IF k = 0 THEN Len(ids) ELSE k - 1
          IN  /\ toolCall'.threw <=> k # 0
              /\ toolCall'.done = n
              /\ DOMAIN registeredTools' = DOMAIN registeredTools \cup Before(ids, n)
              /\ Len(mcpTools') = Len(mcpTools) + n
              /\ \A i \in 1..Len(mcpTools) : mcpTools'[i] = mcpTools[i]
              /\ \A i \in 1..n : mcpTools'[Len(mcpTools) + i].name = ids[i]]_vars
  /\ [][(nResCalls' # nResCalls /\ resCall'.op = "registerMultiple") =>
          LET ids == resCall'.names
              k   == FirstFailing(ids, DOMAIN registeredResources)
              n   == IF k = 0 THEN Len(ids) ELSE k - 1
          IN  /\ resCall'.threw <=> k # 0
              /\ resCall'.done = n
              /\ DOMAIN registeredResources' =
                   DOMAIN registeredResources \cup Before(ids, n)
              /\ Len(mcpResources') = Len(mcpResources) + n
              /\ \A i \in 1..Len(mcpResources) : mcpResources'[i] = mcpResources[i]
              /\ \A i \in 1..n : mcpResources'[Len(mcpResources) + i].uri = ids[i]]_vars

\* registerMultiple threw at the first position of a list of two, and the
\* second, whose name is free, was not registered.
C26_Witness ==
  /\ toolCall.op = "registerMultiple"
  /\ toolCall.threw
  /\ toolCall.done = 0
  /\ Len(toolCall.names) = 2
  /\ toolCall.names[2] \notin DOMAIN registeredTools

\* The transport of request r has been created.
HasTransport(r) == rq[r].pc \notin {"none", "failedCreate"}

\* C27: the transport of a request is closed when the connection of that
\* request closes, whether the handler completed, the client went away first,
\* or connect or handleRequest threw; and a transport is closed only by the
\* close event of its own connection.
C27_TransportClosedWithItsConnection ==
  /\ [](\A r \in Requests : (closed[r] /\ HasTransport(r)) => transportClosed[r])
  /\ [][\A r \in Requests :
          (transportClosed'[r] /\ ~transportClosed[r]) =>
            /\ closed'[r] /\ ~closed[r]
            /\ \A q \in Requests \ {r} : transportClosed'[q] = transportClosed[q]]_vars

\* One request failed in connect and another completed, and the transport of
\* each was closed by the close of its connection.
C27_Witness ==
  /\ rq[1].pc = "failedConnect" /\ closed[1] /\ transportClosed[1]
  /\ rq[2].pc = "done" /\ closed[2] /\ transportClosed[2]

\* The values of the well-formed tags of a kind on the first 20 lines of the
\* scanned file.
WellFormedTags(kind) ==
  {scanFile.lines[i].value : i \in
     {j \in 1..Len(scanFile.lines) :
        /\ scanFile.lines[j].kind = kind
        /\ scanFile.lines[j].at <= 20
        /\ scanFile.lines[j].form = "quoted"
        /\ scanFile.lines[j].value # ""}}

\* The filename-derived default of a field of the config.
DefaultOf(kind, filename) ==
  CASE kind = "uriId" -> filename
    [] kind = "name" -> generateDisplayName(filename)
    [] kind = "description" -> generateDescription(filename)

\* C28: the scan of a file always yields a config (no error), and each of
\* uriId, name and description is the value of a well-formed tag of its kind
\* on the first 20 lines of the file when there is one, and the
\* filename-derived default otherwise: tags on line 21 or later and malformed
\* tags have no effect. (A file that cannot be read gets the defaults.)
C28_TagsOfTheFirstTwentyLines ==
  [][scanConfig' # scanConfig =>
       /\ scanConfig'.filename = scanFile.filename
       /\ \A kind \in TagKinds :
            IF scanFile.readable /\ WellFormedTags(kind) # {}
              THEN scanConfig'[kind] \in WellFormedTags(kind)
              ELSE scanConfig'[kind] = DefaultOf(kind, scanFile.filename)]_vars

\* The scanned file has a well-formed @mcp-name on line 20, a well-formed
\* @mcp-uri on line 21 and no description tag: the config carries the name of
\* the tag, the base name as uriId and the default description.
C28_Witness ==
  /\ scanFile.readable
  /\ scanFile.filename = "react-sample"
  /\ scanFile.lines = <<[at |-> 20, kind |-> "name", form |-> "quoted", value |-> "Hotels"],
                        [at |-> 21, kind |-> "uriId", form |-> "quoted", value |-> "map-view"]>>
  /\ scanConfig = [filename |-> "react-sample", uriId |-> "react-sample",
                   name |-> "Hotels",
                   description |-> generateDescription("react-sample")]

\* C29: constructing the server registers the tools without reading the salt,
\* so it cannot fail with 'URL salt not initialized'; every salt read of the
\* startup comes after initializeUrlSalt() and returns.
C29_NoSaltReadBeforeInit ==
  /\ [][(startPc = "new" /\ startPc' # "new") =>
          /\ startPc' = "constructed"
          /\ nSaltCalls' = nSaltCalls
          /\ saltCall' = saltCall
          /\ hotelSearchTool.name \in DOMAIN registeredTools'
          /\ registeredTools'[hotelSearchTool.name].metaTemplate = "carousel"]_vars
  /\ [][(nSaltCalls' # nSaltCalls /\ saltCall'.op # "initializeUrlSalt") =>
          /\ urlSalt # Null
          /\ saltCall'.outcome = "return"]_vars
  /\ [](saltCall.outcome # "throw")

\* The startup read the salt for a discovered file, after the tools, the
\* hotel-search tool with its template getter among them, were registered in
\* the constructor.
C29_Witness ==
  /\ saltCall.op = "createSaltedUri"
  /\ saltCall.outcome = "return"
  /\ nSaltCalls = 3
  /\ hotelSearchTool.name \in DOMAIN registeredTools
  /\ listening

\* The value of _meta['openai/outputTemplate'] of hotel-search when it is read.
OutputTemplate == createSaltedUri(urlSalt, hotelSearchTool.metaTemplate)

\* C30: at any time after startup the output template of hotel-search is the
\* URI under which the resource discovered for carousel was registered,
\* whatever requests and salt operations have run.
C30_TemplateIsTheRegisteredUri ==
  listening =>
    \A i \in 1..Len(mcpResources) :
      ("filename" \in DOMAIN mcpResources[i] /\ mcpResources[i].filename = "carousel") =>
        /\ OutputTemplate.outcome = "return"
        /\ OutputTemplate.value = mcpResources[i].uri
        /\ lastUri["carousel"] = mcpResources[i].uri

====
